---- MODULE Spec2Model ----
(***************************************************************************)
(* A model of the CleanX tab workspace store (TabWorkspaceService) and of  *)
(* the close/reopen protocol it drives.                                    *)
(*                                                                         *)
(* The persisted store is one Memento value.  The code reads it with       *)
(* getState(), changes the object it got and writes it back with           *)
(* setState().  The Memento contract does not say whether get() returns    *)
(* the cached object itself or a deserialized copy, and the code's         *)
(* behaviour differs between the two, so the model keeps both: the         *)
(* variable hostSharesRefs is chosen once, in Init.                        *)
(*   TRUE : get() returns the cached object; update() replaces the cache   *)
(*          by a JSON clone of the written value.                          *)
(*   FALSE: get() returns a fresh copy of the stored value.                *)
(***************************************************************************)
EXTENDS Integers, Sequences, FiniteSets, TLC

VARIABLES
    store,          \* the value getState() returns: workspaces, currentWorkspace, previousWorkspace
    panes,          \* the host's open tabs, in host order
    now,            \* the clock read by new Date() and Date.now()
    hostSharesRefs, \* the Memento's get(): the cached object (TRUE) or a copy (FALSE)
    ld,             \* the loadWorkspace / restorePreviousWorkspace call in flight
    last            \* the call that returned last, with its arguments and result

vars == <<store, panes, now, hostSharesRefs, ld, last>>

-----------------------------------------------------------------------------
(* Bounds of the model. *)

MaxPanes == 2
MaxWorkspaces == 2
MaxTime == 1
MaxInterleaved == 1

-----------------------------------------------------------------------------
(* Resource identifiers, tabs, names. *)

NoUri == [scheme |-> "none", path |-> ""]
FileA == [scheme |-> "file", path |-> "/w/a.ts"]
FileB == [scheme |-> "file", path |-> "/w/b.md"]
GitA == [scheme |-> "git", path |-> "/w/a.ts"]
UntitledU == [scheme |-> "untitled", path |-> "Untitled-1"]

\* uri.toString(): the scheme, then the rest of the identifier.
UriToString(u) == <<u.scheme, u.path>>

\* vscode.Uri.parse(s): the inverse of toString on the strings a save stored.
UriParse(s) == [scheme |-> s[1], path |-> s[2]]

NoName == [kind |-> "none", id |-> 0]
UserName(n) == [kind |-> "user", id |-> n]
AutoSaveName(t) == [kind |-> "auto-save", id |-> t]
RestoredName(t) == [kind |-> "restored", id |-> t]

\* The names a caller passes: a plain one, and one that reads "restored-0".
InputNames == {UserName(1), RestoredName(0)}

NoWorkspace == [name |-> NoName, tabs |-> <<>>, createdAt |-> 0 - 1, lastModified |-> 0 - 1]

EmptyState == [workspaces |-> <<>>, currentWorkspace |-> NoName, previousWorkspace |-> NoWorkspace]

Tab(k, u, o, m, l) ==
    [kind |-> k, uri |-> u, original |-> o, modified |-> m, label |-> l,
     isActive |-> FALSE, isPinned |-> FALSE, isPreview |-> FALSE, viewColumn |-> 1]

TextTab(u) == Tab("text", u, NoUri, NoUri, u.path)

\* The tabs a user opens: a text document, a comparison of a git revision with
\* a file, an untitled (non-file) document, a custom editor on a file, and a tab
\* with no document (a terminal or a webview).
TabChoices ==
    { TextTab(FileA),
      Tab("diff", NoUri, GitA, FileB, "b.md (Working Tree)"),
      TextTab(UntitledU),
      Tab("custom", FileB, NoUri, NoUri, "b.md"),
      Tab("other", NoUri, NoUri, NoUri, "Terminal") }

\* The tabs a user opens where the store, not the tabs, is what is looked at.
StoreTabChoices == { TextTab(FileA) }

-----------------------------------------------------------------------------
(* TabWorkspaceService: the pure parts. *)

\* An extractor that would also put a comparison's modified side in uri.
ExtractTabInfosWithUri(tabs) ==
    [i \in 1..Len(tabs) |->
        [isActive |-> tabs[i].isActive,
         isPinned |-> tabs[i].isPinned,
         label |-> tabs[i].label,
         viewColumn |-> tabs[i].viewColumn,
         uri |-> IF tabs[i].kind \in {"text", "custom"} THEN tabs[i].uri ELSE tabs[i].modified,
         originalUri |-> IF tabs[i].kind = "diff" THEN tabs[i].original ELSE NoUri,
         modifiedUri |-> IF tabs[i].kind = "diff" THEN tabs[i].modified ELSE NoUri]]

\* extractTabInfos: one descriptor per tab, in host order.
ExtractTabInfos(tabs) ==
    [i \in 1..Len(tabs) |->
        [isActive |-> tabs[i].isActive,
         isPinned |-> tabs[i].isPinned,
         label |-> tabs[i].label,
         viewColumn |-> tabs[i].viewColumn,
         uri |-> IF tabs[i].kind \in {"text", "custom"} THEN tabs[i].uri ELSE NoUri,
         originalUri |-> IF tabs[i].kind = "diff" THEN tabs[i].original ELSE NoUri,
         modifiedUri |-> IF tabs[i].kind = "diff" THEN tabs[i].modified ELSE NoUri]]

\* A save that would store the original side of a comparison.
FilePathOfOriginal(tabInfo) ==
    IF tabInfo.uri # NoUri /\ tabInfo.originalUri = NoUri
    THEN <<UriToString(tabInfo.uri)>>
    ELSE IF tabInfo.originalUri # NoUri
         THEN <<UriToString(tabInfo.originalUri)>>
         ELSE <<>>

\* A save that would store both sides of a comparison.
FilePathOfBothSides(tabInfo) ==
    IF tabInfo.uri # NoUri /\ tabInfo.originalUri = NoUri
    THEN <<UriToString(tabInfo.uri)>>
    ELSE IF tabInfo.modifiedUri # NoUri
         THEN <<UriToString(tabInfo.originalUri), UriToString(tabInfo.modifiedUri)>>
         ELSE <<>>

\* The string one descriptor contributes to filePaths (none for an unresolved one).
FilePathOf(tabInfo) ==
    IF tabInfo.uri # NoUri /\ tabInfo.originalUri = NoUri
    THEN <<UriToString(tabInfo.uri)>>
    ELSE IF tabInfo.modifiedUri # NoUri
         THEN <<UriToString(tabInfo.modifiedUri)>>
         ELSE <<>>

RECURSIVE FilePaths(_)
FilePaths(tabInfos) ==
    IF tabInfos = <<>> THEN <<>>
    ELSE FilePathOf(Head(tabInfos)) \o FilePaths(Tail(tabInfos))

\* A save that would store the tabs that were open when the call in flight
\* was made.
NewWorkspaceOfBefore(name, tabs, t) ==
    [name |-> name,
     tabs |-> FilePaths(ExtractTabInfos(IF ld.pc = "idle" THEN tabs ELSE ld.panes0)),
     createdAt |-> t, lastModified |-> t]

\* The workspace object a save builds from the open tabs.
NewWorkspace(name, tabs, t) ==
    [name |-> name, tabs |-> FilePaths(ExtractTabInfos(tabs)), createdAt |-> t, lastModified |-> t]

\* workspaces.filter(w => w.name !== name)
WithoutName(workspaces, name) == SelectSeq(workspaces, LAMBDA w : w.name # name)

\* workspaces.some(w => w.name === name)
HasName(workspaces, name) == \E i \in 1..Len(workspaces) : workspaces[i].name = name

\* The index workspaces.find(w => w.name === name) stops at; 0 when there is none.
FindIndex(workspaces, name) ==
    IF HasName(workspaces, name)
    THEN CHOOSE i \in 1..Len(workspaces) :
            /\ workspaces[i].name = name
            /\ \A j \in 1..(i - 1) : workspaces[j].name # name
    ELSE 0

\* A save that would keep no workspace but the one it stores.
SaveNamedOnly(state, workspace) ==
    [state EXCEPT !.workspaces = <<workspace>>,
                  !.currentWorkspace = workspace.name]

\* A save that would append without removing the workspace of the same name.
SaveNamedAppend(state, workspace) ==
    [state EXCEPT !.workspaces = Append(@, workspace),
                  !.currentWorkspace = workspace.name]

\* saveCurrentTabsAsWorkspace, isAutoSave = false: replace by name, append, make current.
SaveNamed(state, workspace) ==
    [state EXCEPT !.workspaces = Append(WithoutName(@, workspace.name), workspace),
                  !.currentWorkspace = workspace.name]

\* An auto-save that would also make its name current.
SaveAutoMakesCurrent(state, workspace) ==
    [state EXCEPT !.previousWorkspace = workspace,
                  !.currentWorkspace = workspace.name]

\* saveCurrentTabsAsWorkspace, isAutoSave = true: the previousWorkspace slot only.
SaveAuto(state, workspace) == [state EXCEPT !.previousWorkspace = workspace]

\* A delete that would work on the state as the call in flight read it.
DeleteFromStale(state, name) ==
    [(IF ld.pc = "idle" THEN state ELSE ld.store0)
        EXCEPT !.workspaces = WithoutName(@, name),
               !.currentWorkspace = IF @ = name THEN NoName ELSE @]

\* A delete that would leave currentWorkspace naming the workspace it removed.
DeleteFromKeepsCurrent(state, name) == [state EXCEPT !.workspaces = WithoutName(@, name)]

\* deleteWorkspace: the state it writes back (before it looks at the count).
DeleteFrom(state, name) ==
    [state EXCEPT !.workspaces = WithoutName(@, name),
                  !.currentWorkspace = IF @ = name THEN NoName ELSE @]

\* A rename that would leave currentWorkspace at the old name.
RenameInKeepsCurrent(state, oldName, newName, t) ==
    [state EXCEPT !.workspaces[FindIndex(state.workspaces, oldName)] =
                      [@ EXCEPT !.name = newName, !.lastModified = t]]

\* renameWorkspace: the first workspace named oldName gets the name and a new lastModified.
RenameIn(state, oldName, newName, t) ==
    [state EXCEPT !.workspaces[FindIndex(state.workspaces, oldName)] =
                      [@ EXCEPT !.name = newName, !.lastModified = t],
                  !.currentWorkspace = IF @ = oldName THEN newName ELSE @]

\* A load that would write a fresh state with nothing but the current name.
LoadFinalFresh(state, name) == [EmptyState EXCEPT !.currentWorkspace = name]

\* A load that would write the state back without making the name current.
LoadFinalKeepsCurrent(state, name) == state

\* loadWorkspace, lines 205-208: the state it writes back.  The refreshed
\* lastModified goes to the local copy `workspace`, not into `state`.
LoadFinal(state, name) == [state EXCEPT !.currentWorkspace = name]

\* restorePreviousWorkspace, lines 372-377: the slot pushed under the new name.
PushRestored(state, tempName) ==
    [state EXCEPT !.workspaces = Append(@, [state.previousWorkspace EXCEPT !.name = tempName])]

\* restorePreviousWorkspace, lines 382-384.
ClearPrevious(state) == [state EXCEPT !.previousWorkspace = NoWorkspace]

\* A restore that would not look whether the slot holds anything.
HasPreviousWorkspaceUnchecked(state) == TRUE

\* The test of lines 368 and 358: the slot holds a workspace.
HasPreviousWorkspace(state) == state.previousWorkspace # NoWorkspace

-----------------------------------------------------------------------------
(* The host: open tabs. *)

\* What makes two tab records the same tab.
TabKey(t) == <<t.kind, t.uri, t.original, t.modified, t.viewColumn>>

TabKeys(tabs) == {TabKey(tabs[i]) : i \in 1..Len(tabs)}

\* Tab k becomes the active tab of its group.
Activate(tabs, k) ==
    [i \in 1..Len(tabs) |->
        [tabs[i] EXCEPT !.isActive =
            IF tabs[i].viewColumn = tabs[k].viewColumn THEN i = k ELSE @]]

\* showTextDocument(document, {preview: false, preserveFocus: true}): the
\* document's tab in the active group is revealed, or a new one is appended.
ShowTextDocument(tabs, uri) ==
    IF \E i \in 1..Len(tabs) : TabKey(tabs[i]) = TabKey(TextTab(uri))
    THEN Activate(tabs, CHOOSE i \in 1..Len(tabs) : TabKey(tabs[i]) = TabKey(TextTab(uri)))
    ELSE Activate(Append(tabs, TextTab(uri)), Len(tabs) + 1)

Range(seq) == {seq[i] : i \in 1..Len(seq)}

RemoveAt(seq, k) == [i \in 1..(Len(seq) - 1) |-> IF i < k THEN seq[i] ELSE seq[i + 1]]

-----------------------------------------------------------------------------
(* The call in flight and the record of the call that returned last. *)

IdleLd ==
    [pc |-> "idle", caller |-> "none", name |-> NoName, auto |-> FALSE,
     state |-> EmptyState, live |-> FALSE, rstate |-> EmptyState,
     tabs |-> <<>>, i |-> 0, opened |-> 0, skipped |-> 0, log |-> <<>>,
     store0 |-> EmptyState, panes0 |-> <<>>, others |-> 0, afterSave |-> FALSE,
     order |-> <<>>, active |-> 0, closeFailed |-> FALSE, commits |-> <<>>,
     focus |-> "none", arg |-> NoName]

\* store0 and panes0 are the store and the open tabs when the call was made;
\* log lists, per stored identifier, what the host answered; others counts the
\* calls that ran while this one was suspended; afterSave says that the call
\* before it was the save of the same name; list is what getWorkspaces or
\* sortTabInfoArray returned, order the customFileTypeOrder it was given; tabs is
\* the sequence the call set out to reopen, closeFailed says that
\* tabGroups.close threw; result is what the call returned to its caller;
\* commits holds the first state written to the store after the call read it
\* and before it returned; focus says what the open that gives the focus back
\* did.
NoResult == [opened |-> 0 - 1, skipped |-> 0 - 1]

NoCall ==
    [op |-> "none", name |-> NoName, arg |-> NoName, auto |-> FALSE,
     status |-> "none", opened |-> 0, skipped |-> 0, log |-> <<>>, list |-> <<>>,
     order |-> <<>>, tabs |-> <<>>, closeFailed |-> FALSE, result |-> NoResult,
     commits |-> <<>>, focus |-> "none",
     store0 |-> EmptyState, panes0 |-> <<>>, others |-> 0, afterSave |-> FALSE]

Call(op, name, arg, auto, status) ==
    [NoCall EXCEPT !.op = op, !.name = name, !.arg = arg, !.auto = auto,
                   !.status = status, !.store0 = store, !.panes0 = panes]

\* What the caller gets: loadWorkspace resolves to {opened, skipped}, sortTabs
\* to reopenedCount; restorePreviousWorkspace awaits the load, drops what it
\* resolved to and resolves to nothing.
ReturnValue(l, status) ==
    IF status # "ok" THEN NoResult
    ELSE IF l.caller = "load" THEN [opened |-> l.opened, skipped |-> l.skipped]
    ELSE IF l.caller = "sortTabs" THEN [NoResult EXCEPT !.opened = l.opened]
    ELSE NoResult

\* The record of a finished loadWorkspace, restorePreviousWorkspace or sortTabs
\* call.
LoadCall(l, status) ==
    [NoCall EXCEPT !.op = l.caller, !.name = l.name, !.arg = l.arg, !.auto = l.auto,
                   !.status = status,
                   !.opened = l.opened, !.skipped = l.skipped, !.log = l.log,
                   !.tabs = l.tabs, !.order = l.order, !.closeFailed = l.closeFailed,
                   !.result = ReturnValue(l, status), !.commits = l.commits,
                   !.focus = l.focus,
                   !.store0 = l.store0, !.panes0 = l.panes0, !.others = l.others,
                   !.afterSave = l.afterSave]

\* The caller has taken the result of the last call.
Acknowledge ==
    /\ last # NoCall
    /\ last' = NoCall
    /\ UNCHANGED <<store, panes, now, hostSharesRefs, ld>>

\* Another operation may run while a call is suspended.
MayInterleave == ld.pc = "idle" \/ ld.others < MaxInterleaved

\* What another operation does to the call in flight: if that call's `state`
\* is the cached object, the change was made to that very object, and update()
\* then replaced the cache by a clone.
Disturbed(l, newState) ==
    IF l.pc = "idle" THEN l
    ELSE [l EXCEPT !.state = IF l.live THEN newState ELSE @,
                   !.live = FALSE,
                   !.others = @ + 1,
                   !.commits = IF @ = <<>> THEN <<newState>> ELSE @]

\* An operation that returns without writing, while a call is in flight.
Touched(l) == IF l.pc = "idle" THEN l ELSE [l EXCEPT !.others = @ + 1]

\* getState(), change, setState(newState) by save, delete or rename.
Commit(newState) ==
    /\ store' = newState
    /\ ld' = Disturbed(ld, newState)

\* The names a caller may pass to load, delete and rename.
CallNames == InputNames \cup {store.workspaces[i].name : i \in 1..Len(store.workspaces)}

-----------------------------------------------------------------------------
(* Environment actions.  The user opens and closes tabs between calls. *)

Init ==
    /\ store = EmptyState
    /\ panes = <<>>
    /\ now = 0
    /\ hostSharesRefs \in BOOLEAN
    /\ ld = IdleLd
    /\ last = NoCall

Tick ==
    /\ last = NoCall
    /\ now < MaxTime
    /\ now' = now + 1
    /\ UNCHANGED <<store, panes, hostSharesRefs, ld, last>>

UserOpensTab(t) ==
    /\ last = NoCall
    /\ ld.pc = "idle"
    /\ Len(panes) < MaxPanes
    /\ TabKey(t) \notin TabKeys(panes)
    /\ panes' = Activate(Append(panes, t), Len(panes) + 1)
    /\ UNCHANGED <<store, now, hostSharesRefs, ld, last>>

UserClosesTab(k) ==
    /\ last = NoCall
    /\ ld.pc = "idle"
    /\ k \in 1..Len(panes)
    /\ panes' = RemoveAt(panes, k)
    /\ UNCHANGED <<store, now, hostSharesRefs, ld, last>>

-----------------------------------------------------------------------------
(* saveCurrentTabsAsWorkspace, deleteWorkspace, renameWorkspace: each reads   *)
(* the store and writes it back before its first suspension point.            *)

SaveCurrentTabsAsWorkspace(name, isAutoSave) ==
    /\ last = NoCall
    /\ MayInterleave
    /\ isAutoSave \/ HasName(store.workspaces, name) \/ Len(store.workspaces) < MaxWorkspaces
    /\ LET workspace == NewWorkspace(name, panes, now)
       IN Commit(IF isAutoSave THEN SaveAuto(store, workspace) ELSE SaveNamed(store, workspace))
    /\ last' = Call("save", name, NoName, isAutoSave, "ok")
    /\ UNCHANGED <<panes, now, hostSharesRefs>>

DeleteWorkspace(name) ==
    /\ last = NoCall
    /\ MayInterleave
    /\ Commit(DeleteFrom(store, name))
    /\ last' = Call("delete", name, NoName, FALSE,
                    IF Len(DeleteFrom(store, name).workspaces) < Len(store.workspaces)
                    THEN "ok" ELSE "NotFound")
    /\ UNCHANGED <<panes, now, hostSharesRefs>>

\* A rename that would not look whether the new name is taken.
NameTakenUnchecked(state, newName) == FALSE

\* Line 263: a workspace has the new name already.
NameTaken(state, newName) == HasName(state.workspaces, newName)

RenameWorkspace(oldName, newName) ==
    /\ last = NoCall
    /\ MayInterleave
    /\ IF ~HasName(store.workspaces, oldName)
       THEN /\ last' = Call("rename", oldName, newName, FALSE, "NotFound")
            /\ ld' = Touched(ld)
            /\ UNCHANGED store
       ELSE IF NameTaken(store, newName)
       THEN /\ last' = Call("rename", oldName, newName, FALSE, "Conflict")
            /\ ld' = Touched(ld)
            /\ UNCHANGED store
       ELSE /\ Commit(RenameIn(store, oldName, newName, now))
            /\ last' = Call("rename", oldName, newName, FALSE, "ok")
    /\ UNCHANGED <<panes, now, hostSharesRefs>>

-----------------------------------------------------------------------------
(* getWorkspaces: a copy of the stored list, sorted.                         *)

\* A comparator that would put the oldest first.
CompareOldestFirst(a, b) == a.lastModified - b.lastModified

\* Line 46: (a, b) => b.lastModified.getTime() - a.lastModified.getTime()
CompareLastModified(a, b) == b.lastModified - a.lastModified

\* One step of a stable sort: w, which came after all of sorted, goes before
\* the first element the comparator puts it before.
RECURSIVE InsertSorted(_, _)
InsertSorted(sorted, w) ==
    IF sorted = <<>> THEN <<w>>
    ELSE IF CompareLastModified(w, Head(sorted)) < 0
         THEN <<w>> \o sorted
         ELSE <<Head(sorted)>> \o InsertSorted(Tail(sorted), w)

\* Array.prototype.sort: stable.
RECURSIVE SortWorkspaces(_)
SortWorkspaces(workspaces) ==
    IF workspaces = <<>> THEN <<>>
    ELSE InsertSorted(SortWorkspaces(SubSeq(workspaces, 1, Len(workspaces) - 1)),
                      workspaces[Len(workspaces)])

\* Lines 41-45: each workspace copied, its two dates made Date objects of the
\* same instant.
CopyWorkspaces(workspaces) ==
    [i \in 1..Len(workspaces) |->
        [name |-> workspaces[i].name,
         tabs |-> workspaces[i].tabs,
         createdAt |-> workspaces[i].createdAt,
         lastModified |-> workspaces[i].lastModified]]

\* map() makes a new array, and that array is what sort() reorders.
GetWorkspaces ==
    /\ last = NoCall
    /\ MayInterleave
    /\ last' = [Call("list", NoName, NoName, FALSE, "ok") EXCEPT
                    !.list = SortWorkspaces(CopyWorkspaces(store.workspaces))]
    /\ ld' = Touched(ld)
    /\ UNCHANGED <<store, panes, now, hostSharesRefs>>

-----------------------------------------------------------------------------
(* loadWorkspace, step by step: every await is a suspension point.           *)

LogEntry(str, probe, open) == [uri |-> str, probe |-> probe, open |-> open]

\* A loop that would not count an identifier it does not open.
SkipTabUncounted(l, probe, open) ==
    [l EXCEPT !.pc = "delay",
              !.log = Append(@, LogEntry(l.tabs[l.i], probe, open))]

\* Lines 189, 194: the identifier is counted as skipped; the delay comes next.
SkipTab(l, probe, open) ==
    [l EXCEPT !.pc = "delay",
              !.skipped = @ + 1,
              !.log = Append(@, LogEntry(l.tabs[l.i], probe, open))]

\* Line 177: the identifier is counted as opened; the delay comes next.
CountOpened(l) ==
    [l EXCEPT !.pc = "delay",
              !.opened = @ + 1,
              !.log = Append(@, LogEntry(l.tabs[l.i], "ok", "ok"))]

\* A loop that would probe and open an identifier of any scheme.
IsAnyUri(uri) == uri.scheme # "none"

\* Line 165: only an identifier with the file scheme is probed and opened.
IsFileUri(uri) == uri.scheme = "file"

\* Lines 205-216: write `state` back with currentWorkspace = name and return;
\* a load called by restorePreviousWorkspace resumes that caller later.
FinishLoad(l) ==
    /\ store' = LoadFinal(l.state, l.name)
    /\ IF l.caller = "load"
       THEN /\ ld' = IdleLd
            /\ last' = LoadCall(l, "ok")
       ELSE /\ ld' = [l EXCEPT !.pc = "restoreTail", !.state = LoadFinal(l.state, l.name),
                               !.live = FALSE]
            /\ last' = NoCall

\* Lines 161-198, from the top of iteration l.i to the next await.
EnterLoop(l) ==
    IF l.i > Len(l.tabs)
    THEN FinishLoad(l)
    ELSE /\ ld' = IF IsFileUri(UriParse(l.tabs[l.i]))
                   THEN [l EXCEPT !.pc = "stat"]
                   ELSE SkipTab(l, "none", "none")
         /\ last' = NoCall
         /\ UNCHANGED store

\* Lines 135-156, from the lookup that succeeded to the first await.  `cache`
\* is what getState() returns to loadWorkspace; rstate is the caller's state
\* object when the caller is restorePreviousWorkspace.
BeginLoad(caller, name, autoSaveCurrent, cache, rstate) ==
    LET doAuto == autoSaveCurrent /\ Len(panes) > 0
        saved == SaveAuto(cache, NewWorkspace(AutoSaveName(now), panes, now))
        l == [IdleLd EXCEPT
                !.caller = caller, !.name = name, !.auto = autoSaveCurrent,
                !.state = IF doAuto /\ hostSharesRefs THEN saved ELSE cache,
                !.live = hostSharesRefs /\ ~doAuto,
                !.rstate = rstate,
                !.tabs = cache.workspaces[FindIndex(cache.workspaces, name)].tabs,
                !.i = 1,
                !.store0 = store,
                !.panes0 = panes,
                !.afterSave = (last # NoCall),
                !.commits = IF doAuto THEN <<saved>> ELSE <<>>]
    IN IF doAuto
       THEN /\ store' = saved
            /\ ld' = [l EXCEPT !.pc = "autosaved"]
            /\ last' = NoCall
       ELSE IF Len(panes) > 0
       THEN /\ store' = cache
            /\ ld' = [l EXCEPT !.pc = "close"]
            /\ last' = NoCall
       ELSE IF l.i > Len(l.tabs)
       THEN FinishLoad(l)
       ELSE /\ store' = cache
            /\ ld' = IF IsFileUri(UriParse(l.tabs[l.i]))
                     THEN [l EXCEPT !.pc = "stat"]
                     ELSE SkipTab(l, "none", "none")
            /\ last' = NoCall

\* The call before this one is the save of the same name, not yet acknowledged.
RightAfterSave(name) ==
    /\ last.op = "save"
    /\ last.name = name
    /\ ~last.auto

\* A load that would auto-save the open tabs before it looks the name up.
LoadNotFoundAfterAutoSave(name, autoSaveCurrent) ==
    /\ last' = Call("load", name, NoName, autoSaveCurrent, "NotFound")
    /\ store' = IF autoSaveCurrent /\ Len(panes) > 0
                THEN SaveAuto(store, NewWorkspace(AutoSaveName(now), panes, now))
                ELSE store
    /\ UNCHANGED ld

\* Lines 131-133: the lookup failed; nothing was done before it.
LoadNotFound(name, autoSaveCurrent) ==
    /\ last' = Call("load", name, NoName, autoSaveCurrent, "NotFound")
    /\ UNCHANGED <<store, ld>>

LoadWorkspace(name, autoSaveCurrent) ==
    /\ last = NoCall \/ RightAfterSave(name)
    /\ ld.pc = "idle"
    /\ IF ~HasName(store.workspaces, name)
       THEN LoadNotFound(name, autoSaveCurrent)
       ELSE BeginLoad("load", name, autoSaveCurrent, store, EmptyState)
    /\ UNCHANGED <<panes, now, hostSharesRefs>>

\* Resumed after the auto-save's setState: lines 150-156.
LoadAfterAutoSave ==
    /\ last = NoCall
    /\ ld.pc = "autosaved"
    /\ IF Len(panes) > 0
       THEN /\ ld' = [ld EXCEPT !.pc = "close"]
            /\ UNCHANGED <<store, last>>
       ELSE EnterLoop(ld)
    /\ UNCHANGED <<panes, now, hostSharesRefs>>

\* A load that would catch the failure of the close and go on.
SwallowsCloseFailure(closes) == FALSE

\* Lines 150-156: the close has no try of its own; when it throws, the
\* exception leaves loadWorkspace through lines 217-220.
PropagatesCloseFailure(closes) == ~closes

\* tabGroups.close(allTabs, true) resolves, or throws.
LoadClose(closes) ==
    /\ last = NoCall
    /\ ld.pc = "close"
    /\ IF PropagatesCloseFailure(closes)
       THEN /\ last' = LoadCall([ld EXCEPT !.closeFailed = TRUE], "CloseFailed")
            /\ ld' = IdleLd
            /\ UNCHANGED <<store, panes>>
       ELSE /\ panes' = IF closes THEN <<>> ELSE panes
            /\ EnterLoop([ld EXCEPT !.closeFailed = ~closes])
    /\ UNCHANGED <<now, hostSharesRefs>>

\* workspace.fs.stat resolves or throws.
LoadStat(found) ==
    /\ last = NoCall
    /\ ld.pc = "stat"
    /\ ld' = IF found THEN [ld EXCEPT !.pc = "open"] ELSE SkipTab(ld, "failed", "none")
    /\ UNCHANGED <<store, panes, now, hostSharesRefs, last>>

\* openTextDocument and showTextDocument resolve, or one of them throws.
LoadOpen(opens) ==
    /\ last = NoCall
    /\ ld.pc = "open"
    /\ IF opens
       THEN /\ panes' = ShowTextDocument(panes, UriParse(ld.tabs[ld.i]))
            /\ ld' = CountOpened(ld)
       ELSE /\ panes' = panes
            /\ ld' = SkipTab(ld, "ok", "failed")
    /\ UNCHANGED <<store, now, hostSharesRefs, last>>

\* A loop that would take an identifier it skipped once more.
LoadDelayRetries ==
    /\ last = NoCall
    /\ ld.pc = "delay"
    /\ IF ld.log[Len(ld.log)].open # "ok"
       THEN /\ ld' = [ld EXCEPT !.pc = "open",
                                !.skipped = @ - 1,
                                !.log = SubSeq(@, 1, Len(@) - 1)]
            /\ UNCHANGED <<store, last>>
       ELSE EnterLoop([ld EXCEPT !.i = @ + 1])
    /\ UNCHANGED <<panes, now, hostSharesRefs>>

\* The 50 ms delay is over: the next iteration, or the end of the loop.
LoadDelay ==
    /\ last = NoCall
    /\ ld.pc = "delay"
    /\ EnterLoop([ld EXCEPT !.i = @ + 1])
    /\ UNCHANGED <<panes, now, hostSharesRefs>>

-----------------------------------------------------------------------------
(* restorePreviousWorkspace. *)

\* Lines 366-380.  The push changes the object getState() returned and is not
\* written; loadWorkspace then calls getState() itself.
RestorePreviousWorkspace ==
    /\ last = NoCall
    /\ ld.pc = "idle"
    /\ HasPreviousWorkspace(store) => Len(store.workspaces) < MaxWorkspaces
    /\ IF ~HasPreviousWorkspace(store)
       THEN /\ last' = Call("restore", NoName, NoName, FALSE, "NoPreviousWorkspace")
            /\ UNCHANGED <<store, ld>>
       ELSE LET tempName == RestoredName(now)
                pushed == PushRestored(store, tempName)
                cache == IF hostSharesRefs THEN pushed ELSE store
            IN IF ~HasName(cache.workspaces, tempName)
               THEN /\ last' = Call("restore", tempName, NoName, FALSE, "NotFound")
                    /\ UNCHANGED <<store, ld>>
               ELSE BeginLoad("restore", tempName, FALSE, cache, pushed)
    /\ UNCHANGED <<panes, now, hostSharesRefs>>

\* Lines 382-386, resumed after the load returned.
RestoreFinish ==
    /\ last = NoCall
    /\ ld.pc = "restoreTail"
    /\ store' = ClearPrevious(IF hostSharesRefs THEN ld.state ELSE ld.rstate)
    /\ last' = LoadCall(ld, "ok")
    /\ ld' = IdleLd
    /\ UNCHANGED <<panes, now, hostSharesRefs>>

-----------------------------------------------------------------------------
(* Spec: the store operations one after the other, within one millisecond.   *)

LoadSteps ==
    \/ LoadAfterAutoSave
    \/ \E closes \in BOOLEAN : LoadClose(closes)
    \/ \E found \in BOOLEAN : LoadStat(found)
    \/ \E opens \in BOOLEAN : LoadOpen(opens)
    \/ LoadDelay

StoreCalls ==
    \/ \E name \in InputNames, isAutoSave \in BOOLEAN : SaveCurrentTabsAsWorkspace(name, isAutoSave)
    \/ \E name \in CallNames : DeleteWorkspace(name)
    \/ \E oldName \in CallNames, newName \in InputNames : RenameWorkspace(oldName, newName)

Next ==
    \/ \E t \in StoreTabChoices : UserOpensTab(t)
    \/ \E k \in 1..MaxPanes : UserClosesTab(k)
    \/ ld.pc = "idle" /\ StoreCalls
    \/ \E name \in CallNames, autoSaveCurrent \in BOOLEAN : LoadWorkspace(name, autoSaveCurrent)
    \/ LoadSteps
    \/ RestorePreviousWorkspace
    \/ RestoreFinish
    \/ Acknowledge

Spec == Init /\ [][Next]_vars

(* SpecClock: the same, the clock running.                                   *)

NextClock ==
    \/ Tick
    \/ Next

SpecClock == Init /\ [][NextClock]_vars

(* SpecConc: save, delete and rename also run at the suspension points of a  *)
(* load or a restore in flight; the clock stands still.                      *)

NextConc ==
    \/ \E t \in StoreTabChoices : UserOpensTab(t)
    \/ \E k \in 1..MaxPanes : UserClosesTab(k)
    \/ StoreCalls
    \/ \E name \in CallNames, autoSaveCurrent \in BOOLEAN : LoadWorkspace(name, autoSaveCurrent)
    \/ LoadSteps
    \/ RestorePreviousWorkspace
    \/ RestoreFinish
    \/ Acknowledge

SpecConc == Init /\ [][NextConc]_vars

(* SpecLost: named saves and deletes also run at the suspension points of a   *)
(* load in flight; neither rename nor restore.                                *)

NextLost ==
    \/ \E t \in StoreTabChoices : UserOpensTab(t)
    \/ \E k \in 1..MaxPanes : UserClosesTab(k)
    \/ \E name \in InputNames : SaveCurrentTabsAsWorkspace(name, FALSE)
    \/ \E name \in CallNames : DeleteWorkspace(name)
    \/ \E name \in CallNames, autoSaveCurrent \in BOOLEAN : LoadWorkspace(name, autoSaveCurrent)
    \/ LoadSteps
    \/ Acknowledge

SpecLost == Init /\ [][NextLost]_vars

(* SpecAtomic: a save, a delete or a rename is in flight from its write to    *)
(* the tail after `await this.setState(state)`; other saves, deletes and      *)
(* renames run meanwhile.  Neither load nor restore.                          *)

\* From the call to the await of setState: the store is read and written.
StoreCallStarts(op, name, arg, newState) ==
    /\ last = NoCall
    /\ ld.pc = "idle"
    /\ store' = newState
    /\ ld' = [IdleLd EXCEPT !.pc = "setState", !.caller = op, !.name = name, !.arg = arg,
                            !.state = newState, !.store0 = store, !.panes0 = panes]
    /\ UNCHANGED <<panes, now, hostSharesRefs, last>>

\* saveCurrentTabsAsWorkspace(name, false), lines 62-101.
SaveStarts(name) ==
    /\ HasName(store.workspaces, name) \/ Len(store.workspaces) < MaxWorkspaces
    /\ StoreCallStarts("save", name, NoName, SaveNamed(store, NewWorkspace(name, panes, now)))

\* deleteWorkspace(name), lines 228-237.
DeleteStarts(name) == StoreCallStarts("delete", name, NoName, DeleteFrom(store, name))

\* renameWorkspace(oldName, newName), lines 255-274, when it does not throw.
RenameStarts(oldName, newName) ==
    /\ HasName(store.workspaces, oldName)
    /\ ~NameTaken(store, newName)
    /\ StoreCallStarts("rename", oldName, newName, RenameIn(store, oldName, newName, now))

\* setState resolved: the tail of the call (for a delete, lines 239-243: the
\* lengths of its own state object before and after the filter).
SetStateResolves ==
    /\ ld.pc = "setState"
    /\ last = NoCall
    /\ last' = LoadCall(ld, IF ld.caller = "delete"
                                /\ Len(ld.state.workspaces) >= Len(ld.store0.workspaces)
                            THEN "NotFound" ELSE "ok")
    /\ ld' = IdleLd
    /\ UNCHANGED <<store, panes, now, hostSharesRefs>>

NextAtomic ==
    \/ \E t \in StoreTabChoices : UserOpensTab(t)
    \/ \E k \in 1..MaxPanes : UserClosesTab(k)
    \/ \E name \in InputNames : SaveStarts(name)
    \/ \E name \in CallNames : DeleteStarts(name)
    \/ \E oldName \in CallNames, newName \in InputNames : RenameStarts(oldName, newName)
    \/ SetStateResolves
    \/ \E name \in InputNames : SaveCurrentTabsAsWorkspace(name, FALSE)
    \/ \E name \in CallNames : DeleteWorkspace(name)
    \/ \E oldName \in CallNames, newName \in InputNames : RenameWorkspace(oldName, newName)
    \/ Acknowledge

SpecAtomic == Init /\ [][NextAtomic]_vars

(* SpecTabs: one name, every kind of tab; save and load without auto-save,   *)
(* one after the other.                                                      *)

NextTabs ==
    \/ \E t \in TabChoices : UserOpensTab(t)
    \/ \E k \in 1..MaxPanes : UserClosesTab(k)
    \/ ld.pc = "idle" /\ SaveCurrentTabsAsWorkspace(UserName(1), FALSE)
    \/ LoadWorkspace(UserName(1), FALSE)
    \/ \E closes \in BOOLEAN : LoadClose(closes)
    \/ \E found \in BOOLEAN : LoadStat(found)
    \/ \E opens \in BOOLEAN : LoadOpen(opens)
    \/ LoadDelay
    \/ Acknowledge

SpecTabs == Init /\ [][NextTabs]_vars

-----------------------------------------------------------------------------
(* SpecDates: named saves, renames, loads without auto-save and listings,    *)
(* one after the other, the clock running.                                   *)

\* The names a rename may give: those a caller passes, and one more.
RenameNames == InputNames \cup {UserName(2)}

NextDates ==
    \/ Tick
    \/ \E t \in StoreTabChoices : UserOpensTab(t)
    \/ \E k \in 1..MaxPanes : UserClosesTab(k)
    \/ \E name \in InputNames : ld.pc = "idle" /\ SaveCurrentTabsAsWorkspace(name, FALSE)
    \/ \E oldName \in CallNames, newName \in RenameNames :
          ld.pc = "idle" /\ RenameWorkspace(oldName, newName)
    \/ \E name \in CallNames : LoadWorkspace(name, FALSE)
    \/ \E closes \in BOOLEAN : LoadClose(closes)
    \/ \E found \in BOOLEAN : LoadStat(found)
    \/ \E opens \in BOOLEAN : LoadOpen(opens)
    \/ LoadDelay
    \/ ld.pc = "idle" /\ GetWorkspaces
    \/ Acknowledge

SpecDates == Init /\ [][NextDates]_vars

-----------------------------------------------------------------------------
(* The commands that take a workspace name from an input box, and SpecNames: *)
(* those commands one after the other.  The box accepts a value only when    *)
(* validateInput returns nothing; the command trims what it accepted.        *)

MinNameLength == 2
MaxNameLength == 50

Letters ==
    {"a", "b", "c", "d", "e", "f", "g", "h", "i", "j", "k", "l", "m",
     "n", "o", "p", "q", "r", "s", "t", "u", "v", "w", "x", "y", "z",
     "A", "B", "C", "D", "E", "F", "G", "H", "I", "J", "K", "L", "M",
     "N", "O", "P", "Q", "R", "S", "T", "U", "V", "W", "X", "Y", "Z"}

DigitChars == <<"0", "1", "2", "3", "4", "5", "6", "7", "8", "9">>

Whitespace == {" ", "\t"}

\* The characters /^[a-zA-Z0-9\s\-_.]+$/ lets through.
AllowedChars == Letters \cup Range(DigitChars) \cup Whitespace \cup {"-", "_", "."}

RECURSIVE Repeat(_, _)
Repeat(c, n) == IF n = 0 THEN <<>> ELSE <<c>> \o Repeat(c, n - 1)

RECURSIVE DecimalDigits(_)
DecimalDigits(n) ==
    IF n < 10 THEN <<DigitChars[n + 1]>>
    ELSE DecimalDigits(n \div 10) \o <<DigitChars[(n % 10) + 1]>>

\* What the names UserName(1), UserName(2), ... read: two plain ones, one of
\* one character, one with a slash, one of 51 characters.
UserTexts ==
    << <<"w", "1">>,
       <<"w", "2">>,
       <<"x">>,
       <<"a", "/", "b">>,
       Repeat("a", MaxNameLength + 1) >>

\* The characters of a name.
NameText(name) ==
    IF name.kind = "user" THEN UserTexts[name.id]
    ELSE IF name.kind = "restored" THEN <<"r", "e", "s", "t", "o", "r", "e", "d", "-">> \o DecimalDigits(name.id)
    ELSE IF name.kind = "auto-save" THEN <<"a", "u", "t", "o", "-", "s", "a", "v", "e", "-">> \o DecimalDigits(name.id)
    ELSE <<>>

\* The name that reads as a text (the texts typed below all read as one).
NameOfText(text) == CHOOSE name \in {UserName(n) : n \in 1..Len(UserTexts)} : NameText(name) = text

\* value.trim()
RECURSIVE TrimStart(_)
TrimStart(text) ==
    IF text # <<>> /\ Head(text) \in Whitespace THEN TrimStart(Tail(text)) ELSE text

RECURSIVE TrimEnd(_)
TrimEnd(text) ==
    IF text # <<>> /\ text[Len(text)] \in Whitespace
    THEN TrimEnd(SubSeq(text, 1, Len(text) - 1))
    ELSE text

Trim(text) == TrimEnd(TrimStart(text))

\* What a user types: every text above, one of them with blanks around it,
\* blanks only, and nothing.
TypedTexts ==
    Range(UserTexts) \cup {<<" ", "w", "1", " ">>, <<" ", " ">>, <<>>}

\* validateInput of the save prompt; "ok" stands for undefined.
ValidateSaveName(value) ==
    LET trimmed == Trim(value)
    IN IF trimmed = <<>> THEN "empty"
       ELSE IF Len(trimmed) < MinNameLength THEN "short"
       ELSE IF Len(trimmed) > MaxNameLength THEN "long"
       ELSE IF \E i \in 1..Len(trimmed) : trimmed[i] \notin AllowedChars THEN "chars"
       ELSE "ok"

\* validateInput of the new-workspace prompt.
ValidateNewName(value, state) ==
    IF ValidateSaveName(value) # "ok" THEN ValidateSaveName(value)
    ELSE IF HasName(state.workspaces, NameOfText(Trim(value))) THEN "exists"
    ELSE "ok"

\* validateInput of the rename prompt.
ValidateRename(value, selected, state) ==
    LET trimmed == Trim(value)
    IN IF trimmed = <<>> THEN "empty"
       ELSE IF trimmed = NameText(selected) THEN "same"
       ELSE IF HasName(state.workspaces, NameOfText(trimmed)) THEN "exists"
       ELSE "ok"

\* SaveTabWorkspaceCommand: the prompt, then the save (overwriting if the
\* user agrees to).
SaveCommand(value) ==
    /\ ValidateSaveName(value) = "ok"
    /\ SaveCurrentTabsAsWorkspace(NameOfText(Trim(value)), FALSE)

\* SaveTabWorkspaceCommand, "update": the save under the current name.
UpdateCommand ==
    /\ store.currentWorkspace # NoName
    /\ SaveCurrentTabsAsWorkspace(store.currentWorkspace, FALSE)

\* LoadTabWorkspaceCommand.createNewWorkspace
NewWorkspaceCommand(value) ==
    /\ ValidateNewName(value, store) = "ok"
    /\ SaveCurrentTabsAsWorkspace(NameOfText(Trim(value)), FALSE)

\* LoadTabWorkspaceCommand.renameWorkspace
RenameCommand(selected, value) ==
    /\ HasName(store.workspaces, selected)
    /\ ValidateRename(value, selected, store) = "ok"
    /\ RenameWorkspace(selected, NameOfText(Trim(value)))

NextNames ==
    \/ \E t \in StoreTabChoices : UserOpensTab(t)
    \/ \E k \in 1..MaxPanes : UserClosesTab(k)
    \/ \E value \in TypedTexts : SaveCommand(value)
    \/ UpdateCommand
    \/ \E value \in TypedTexts : NewWorkspaceCommand(value)
    \/ \E selected \in CallNames, value \in TypedTexts : RenameCommand(selected, value)
    \/ Acknowledge

SpecNames == Init /\ [][NextNames]_vars

(* SpecCommands: every command that reaches the store, one after the other.   *)
(* 'Restore Previous' is an item of the list only while the slot is filled,   *)
(* so it takes no step before another command has filled the slot.            *)

\* A load command that would ask for an auto-save of the open tabs.
AutoSaveCurrentAlways == TRUE

\* LoadTabWorkspaceCommand.loadSelectedWorkspace: the second argument of
\* loadWorkspace(workspace.name, false).
AutoSaveCurrent == FALSE

\* LoadTabWorkspaceCommand.loadSelectedWorkspace
LoadCommand(selected) ==
    /\ HasName(store.workspaces, selected)
    /\ LoadWorkspace(selected, AutoSaveCurrent)

\* LoadTabWorkspaceCommand.deleteWorkspace
DeleteCommand(selected) ==
    /\ HasName(store.workspaces, selected)
    /\ DeleteWorkspace(selected)

\* getWorkspaceStatistics().hasPreviousWorkspace: the list has 'Restore Previous'.
RestoreOffered == HasPreviousWorkspace(store)

NextCommands ==
    \/ \E t \in StoreTabChoices : UserOpensTab(t)
    \/ \E k \in 1..MaxPanes : UserClosesTab(k)
    \/ \E value \in TypedTexts : ld.pc = "idle" /\ SaveCommand(value)
    \/ ld.pc = "idle" /\ UpdateCommand
    \/ \E value \in TypedTexts : ld.pc = "idle" /\ NewWorkspaceCommand(value)
    \/ \E selected \in CallNames, value \in TypedTexts :
          ld.pc = "idle" /\ RenameCommand(selected, value)
    \/ \E selected \in CallNames : ld.pc = "idle" /\ DeleteCommand(selected)
    \/ \E selected \in CallNames : LoadCommand(selected)
    \/ \E closes \in BOOLEAN : LoadClose(closes)
    \/ \E found \in BOOLEAN : LoadStat(found)
    \/ \E opens \in BOOLEAN : LoadOpen(opens)
    \/ LoadDelay
    \/ Acknowledge

SpecCommands == Init /\ [][NextCommands]_vars

-----------------------------------------------------------------------------
(* TabSortingService.sortTabInfoArray, and SpecSort: the comparator applied  *)
(* to the descriptors of some open tabs under some customFileTypeOrder.      *)
(* Strings the code takes apart are given here character by character.       *)

MaxSortTabs == 4

FileUpper == [scheme |-> "file", path |-> "/w/B.TS"]
FileJson == [scheme |-> "file", path |-> "/w/c.json"]

\* The characters of the strings of the model.
Chars(str) ==
    CASE str = "/w/a.ts" -> <<"/", "w", "/", "a", ".", "t", "s">>
      [] str = "/w/b.md" -> <<"/", "w", "/", "b", ".", "m", "d">>
      [] str = "/w/B.TS" -> <<"/", "w", "/", "B", ".", "T", "S">>
      [] str = "/w/c.json" -> <<"/", "w", "/", "c", ".", "j", "s", "o", "n">>
      [] str = "Untitled-1" -> <<"U", "n", "t", "i", "t", "l", "e", "d", "-", "1">>
      [] str = "Terminal" -> <<"T", "e", "r", "m", "i", "n", "a", "l">>
      [] str = "b.md" -> <<"b", ".", "m", "d">>
      [] str = "b.md (Working Tree)" ->
            <<"b", ".", "m", "d", " ", "(", "W", "o", "r", "k", "i", "n", "g", " ",
              "T", "r", "e", "e", ")">>
      [] str = "ts" -> <<"t", "s">>
      [] str = "md" -> <<"m", "d">>
      [] str = "json" -> <<"j", "s", "o", "n">>
      [] str = "" -> <<>>

LowerCaseLetters ==
    <<"a", "b", "c", "d", "e", "f", "g", "h", "i", "j", "k", "l", "m",
      "n", "o", "p", "q", "r", "s", "t", "u", "v", "w", "x", "y", "z">>

UpperCaseLetters ==
    <<"A", "B", "C", "D", "E", "F", "G", "H", "I", "J", "K", "L", "M",
      "N", "O", "P", "Q", "R", "S", "T", "U", "V", "W", "X", "Y", "Z">>

\* String.prototype.toLowerCase
ToLowerCase(text) ==
    [i \in 1..Len(text) |->
        IF \E k \in 1..Len(UpperCaseLetters) : UpperCaseLetters[k] = text[i]
        THEN LowerCaseLetters[CHOOSE k \in 1..Len(UpperCaseLetters) : UpperCaseLetters[k] = text[i]]
        ELSE text[i]]

\* The order of the characters under the default collation: blanks, then
\* punctuation, then digits, then letters.  Only lower-cased strings are compared.
CollationOrder ==
    <<" ", "_", "-", ".", "(", ")", "/">> \o DigitChars \o LowerCaseLetters

CollationRank(c) == CHOOSE k \in 1..Len(CollationOrder) : CollationOrder[k] = c

\* String.prototype.localeCompare, reduced to its sign.
RECURSIVE LocaleCompare(_, _)
LocaleCompare(a, b) ==
    IF a = <<>> /\ b = <<>> THEN 0
    ELSE IF a = <<>> THEN 0 - 1
    ELSE IF b = <<>> THEN 1
    ELSE IF CollationRank(Head(a)) < CollationRank(Head(b)) THEN 0 - 1
    ELSE IF CollationRank(Head(a)) > CollationRank(Head(b)) THEN 1
    ELSE LocaleCompare(Tail(a), Tail(b))

\* String.prototype.lastIndexOf, counting from 1; 0 when c does not occur.
LastIndexOf(text, c) ==
    IF \E i \in 1..Len(text) : text[i] = c
    THEN CHOOSE i \in 1..Len(text) :
            text[i] = c /\ \A j \in (i + 1)..Len(text) : text[j] # c
    ELSE 0

\* path.basename
Basename(filePath) == SubSeq(filePath, LastIndexOf(filePath, "/") + 1, Len(filePath))

\* path.extname: from the last dot of the base name, unless that dot is its
\* first character or there is none.
Extname(filePath) ==
    LET base == Basename(filePath)
        dot == LastIndexOf(base, ".")
    IN  IF dot <= 1 THEN <<>> ELSE SubSeq(base, dot, Len(base))

\* The path both extractors look at: the tab's own document, else the
\* modified side of a comparison; the label when there is neither.
HasFilePath(tabInfo) ==
    (tabInfo.uri # NoUri /\ tabInfo.originalUri = NoUri) \/ tabInfo.modifiedUri # NoUri

FsPathOf(tabInfo) ==
    IF tabInfo.uri # NoUri /\ tabInfo.originalUri = NoUri
    THEN Chars(tabInfo.uri.path)
    ELSE Chars(tabInfo.modifiedUri.path)

getFileExtensionFromTabInfo(tabInfo) ==
    LET filePath == IF HasFilePath(tabInfo) THEN FsPathOf(tabInfo) ELSE Chars(tabInfo.label)
        ext == Extname(filePath)
    IN  IF ext # <<>> /\ Head(ext) = "." THEN ToLowerCase(Tail(ext)) ELSE <<>>

getFileNameFromTabInfo(tabInfo) ==
    IF HasFilePath(tabInfo)
    THEN ToLowerCase(Basename(FsPathOf(tabInfo)))
    ELSE ToLowerCase(Chars(tabInfo.label))

\* Array.prototype.indexOf on customFileTypeOrder; the entries are compared as
\* they were configured.
IndexOf(customFileTypeOrder, ext) ==
    IF \E k \in 1..Len(customFileTypeOrder) : Chars(customFileTypeOrder[k]) = ext
    THEN (CHOOSE k \in 1..Len(customFileTypeOrder) :
            /\ Chars(customFileTypeOrder[k]) = ext
            /\ \A j \in 1..(k - 1) : Chars(customFileTypeOrder[j]) # ext) - 1
    ELSE 0 - 1

\* A comparator that would not look at customFileTypeOrder.
CompareByExtensionOnly(a, b, customFileTypeOrder) ==
    IF getFileExtensionFromTabInfo(a) # getFileExtensionFromTabInfo(b)
    THEN LocaleCompare(getFileExtensionFromTabInfo(a), getFileExtensionFromTabInfo(b))
    ELSE LocaleCompare(getFileNameFromTabInfo(a), getFileNameFromTabInfo(b))

\* A comparator that would look at the base names only.
CompareByFileNameOnly(a, b, customFileTypeOrder) ==
    LocaleCompare(getFileNameFromTabInfo(a), getFileNameFromTabInfo(b))

\* A comparator that would put a listed type first without looking at the
\* other descriptor.
CompareListedFirst(a, b, customFileTypeOrder) ==
    IF IndexOf(customFileTypeOrder, getFileExtensionFromTabInfo(a)) # 0 - 1 THEN 0 - 1
    ELSE IF IndexOf(customFileTypeOrder, getFileExtensionFromTabInfo(b)) # 0 - 1 THEN 1
    ELSE CompareByExtensionOnly(a, b, customFileTypeOrder)

\* The comparator of sortTabInfoArray.
CompareTabInfos(a, b, customFileTypeOrder) ==
    LET aExt == getFileExtensionFromTabInfo(a)
        bExt == getFileExtensionFromTabInfo(b)
        aFileName == getFileNameFromTabInfo(a)
        bFileName == getFileNameFromTabInfo(b)
        aIndex == IndexOf(customFileTypeOrder, aExt)
        bIndex == IndexOf(customFileTypeOrder, bExt)
    IN  IF Len(customFileTypeOrder) > 0 /\ aIndex # 0 - 1 /\ bIndex # 0 - 1
        THEN IF aIndex # bIndex THEN aIndex - bIndex
             ELSE LocaleCompare(aFileName, bFileName)
        ELSE IF Len(customFileTypeOrder) > 0 /\ aIndex # 0 - 1 THEN 0 - 1
        ELSE IF Len(customFileTypeOrder) > 0 /\ bIndex # 0 - 1 THEN 1
        ELSE IF aExt # bExt THEN LocaleCompare(aExt, bExt)
        ELSE LocaleCompare(aFileName, bFileName)

\* One step of a stable sort of descriptors.
RECURSIVE InsertTabInfo(_, _, _)
InsertTabInfo(sorted, tabInfo, customFileTypeOrder) ==
    IF sorted = <<>> THEN <<tabInfo>>
    ELSE IF CompareTabInfos(tabInfo, Head(sorted), customFileTypeOrder) < 0
         THEN <<tabInfo>> \o sorted
         ELSE <<Head(sorted)>> \o InsertTabInfo(Tail(sorted), tabInfo, customFileTypeOrder)

\* tabInfos.slice().sort(comparator)
RECURSIVE sortTabInfoArray(_, _)
sortTabInfoArray(tabInfos, customFileTypeOrder) ==
    IF tabInfos = <<>> THEN <<>>
    ELSE InsertTabInfo(
            sortTabInfoArray(SubSeq(tabInfos, 1, Len(tabInfos) - 1), customFileTypeOrder),
            tabInfos[Len(tabInfos)], customFileTypeOrder)

\* The tabs that are sorted: those of TabChoices, a file whose name and
\* extension are in capitals, and a file of a third type.
SortTabChoices == TabChoices \cup {TextTab(FileUpper), TextTab(FileJson)}

\* The values of cleanx.customFileTypeOrder: unset, three lists, and a list
\* that names a type twice.
CustomOrders == {<<>>, <<"md", "ts">>, <<"ts">>, <<"json", "md">>, <<"ts", "md", "ts">>}

\* At most MaxSortTabs different tabs, in any order, the last one active.
SortInputs ==
    {Activate(tabs, Len(tabs)) :
        tabs \in {s \in UNION {[1..n -> SortTabChoices] : n \in 0..MaxSortTabs} :
                    \A i, j \in 1..Len(s) : i # j => s[i] # s[j]}}

\* The sort does not read the store, so one host is enough.
InitSort ==
    /\ store = EmptyState
    /\ panes \in SortInputs
    /\ now = 0
    /\ hostSharesRefs = FALSE
    /\ ld = IdleLd
    /\ last = NoCall

\* A sort that would work on the captured array itself, without slice().
SortTabInfosInPlace(customFileTypeOrder) ==
    /\ last = NoCall
    /\ last' = [Call("sort", NoName, NoName, FALSE, "ok") EXCEPT
                    !.list = sortTabInfoArray(ExtractTabInfos(panes), customFileTypeOrder),
                    !.tabs = sortTabInfoArray(ExtractTabInfos(panes), customFileTypeOrder),
                    !.order = customFileTypeOrder]
    /\ UNCHANGED <<store, panes, now, hostSharesRefs, ld>>

\* sortTabs, line 62: the descriptors of the open tabs are sorted into a new
\* array (list); the captured array (tabs) is as it was, since
\* sortTabInfoArray sorts tabInfos.slice().
SortTabInfos(customFileTypeOrder) ==
    /\ last = NoCall
    /\ last' = [Call("sort", NoName, NoName, FALSE, "ok") EXCEPT
                    !.list = sortTabInfoArray(ExtractTabInfos(panes), customFileTypeOrder),
                    !.tabs = ExtractTabInfos(panes),
                    !.order = customFileTypeOrder]
    /\ UNCHANGED <<store, panes, now, hostSharesRefs, ld>>

NextSort ==
    \/ \E customFileTypeOrder \in CustomOrders : SortTabInfos(customFileTypeOrder)
    \/ Acknowledge

SpecSort == InitSort /\ [][NextSort]_vars

-----------------------------------------------------------------------------
(* TabSortingService.sortTabs, step by step, and SpecReopen: saves, loads    *)
(* and sorts of every kind of tab, one after the other.                      *)

\* The host shows tab t.  A tab with the same input in the same group is
\* revealed; else a preview editor takes the place of the group's preview
\* editor, if there is one; else the tab is appended.
OpenTab(tabs, t, preview) ==
    IF \E i \in 1..Len(tabs) : TabKey(tabs[i]) = TabKey(t)
    THEN Activate(tabs, CHOOSE i \in 1..Len(tabs) : TabKey(tabs[i]) = TabKey(t))
    ELSE IF preview /\ \E i \in 1..Len(tabs) :
                           tabs[i].isPreview /\ tabs[i].viewColumn = t.viewColumn
    THEN LET k == CHOOSE i \in 1..Len(tabs) :
                      tabs[i].isPreview /\ tabs[i].viewColumn = t.viewColumn
         IN  Activate([tabs EXCEPT ![k] = [t EXCEPT !.isPreview = TRUE]], k)
    ELSE Activate(Append(tabs, [t EXCEPT !.isPreview = preview]), Len(tabs) + 1)

\* Lines 77, 87: which branch of the reopen loop a descriptor takes.
IsTextInfo(tabInfo) == tabInfo.uri # NoUri /\ tabInfo.originalUri = NoUri

IsDiffInfo(tabInfo) == tabInfo.originalUri # NoUri /\ tabInfo.modifiedUri # NoUri

\* The identifier a descriptor is logged under.
InfoId(tabInfo) ==
    UriToString(IF IsTextInfo(tabInfo) THEN tabInfo.uri ELSE tabInfo.modifiedUri)

\* The tab the host is asked for: showTextDocument(document, {viewColumn, ...})
\* or vscode.diff(original, modified, label, {viewColumn, ...}).
TabOfInfo(tabInfo) ==
    [(IF IsTextInfo(tabInfo)
      THEN TextTab(tabInfo.uri)
      ELSE Tab("diff", NoUri, tabInfo.originalUri, tabInfo.modifiedUri, tabInfo.label))
     EXCEPT !.viewColumn = tabInfo.viewColumn]

\* Lines 44-46: the place of the last tab that is active; 0 when none is.
ActiveIndex(tabs) ==
    IF \E i \in 1..Len(tabs) : tabs[i].isActive
    THEN CHOOSE i \in 1..Len(tabs) :
            tabs[i].isActive /\ \A j \in (i + 1)..Len(tabs) : ~tabs[j].isActive
    ELSE 0

\* Lines 108-121: sortTabs returns reopenedCount.
SortReturn(l) ==
    /\ ld' = IdleLd
    /\ last' = LoadCall(l, "ok")

\* A reopen loop that would stop at the first descriptor that fails.
SortEnterUnlessFailed(l) ==
    IF l.i > Len(l.tabs) \/ (l.log # <<>> /\ l.log[Len(l.log)].open = "failed")
    THEN IF l.active # 0 /\ ExtractTabInfos(l.panes0)[l.active].uri # NoUri
         THEN /\ ld' = [l EXCEPT !.pc = "sortFocus"]
              /\ last' = NoCall
         ELSE SortReturn(l)
    ELSE IF IsTextInfo(l.tabs[l.i]) \/ IsDiffInfo(l.tabs[l.i])
    THEN /\ ld' = [l EXCEPT !.pc = "sortOpen"]
         /\ last' = NoCall
    ELSE /\ ld' = [l EXCEPT !.pc = "sortDelay",
                            !.log = Append(@, LogEntry(InfoId(l.tabs[l.i]), "none", "none"))]
         /\ last' = NoCall

\* Lines 76-109, from the top of iteration l.i to the next await.
SortEnter(l) ==
    IF l.i > Len(l.tabs)
    THEN IF l.active # 0 /\ ExtractTabInfos(l.panes0)[l.active].uri # NoUri
         THEN /\ ld' = [l EXCEPT !.pc = "sortFocus"]
              /\ last' = NoCall
         ELSE SortReturn(l)
    ELSE IF IsTextInfo(l.tabs[l.i]) \/ IsDiffInfo(l.tabs[l.i])
    THEN /\ ld' = [l EXCEPT !.pc = "sortOpen"]
         /\ last' = NoCall
    ELSE /\ ld' = [l EXCEPT !.pc = "sortDelay",
                            !.log = Append(@, LogEntry(InfoId(l.tabs[l.i]), "none", "none"))]
         /\ last' = NoCall

\* A sort that would go on with a single tab.
NothingToSortWhenEmpty(allTabs) == Len(allTabs) = 0

\* Line 17: no need to sort 0 or 1 tabs.
NothingToSort(allTabs) == Len(allTabs) <= 1

\* Lines 14-62.
SortTabs(customFileTypeOrder) ==
    /\ last = NoCall
    /\ ld.pc = "idle"
    /\ IF NothingToSort(panes)
       THEN /\ last' = [Call("sortTabs", NoName, NoName, FALSE, "ok") EXCEPT
                            !.order = customFileTypeOrder,
                            !.result = [NoResult EXCEPT !.opened = 0]]
            /\ UNCHANGED ld
       ELSE /\ ld' = [IdleLd EXCEPT
                        !.pc = "sortClose", !.caller = "sortTabs",
                        !.tabs = sortTabInfoArray(ExtractTabInfos(panes), customFileTypeOrder),
                        !.i = 1,
                        !.order = customFileTypeOrder,
                        !.active = ActiveIndex(panes),
                        !.store0 = store,
                        !.panes0 = panes]
            /\ last' = NoCall
    /\ UNCHANGED <<store, panes, now, hostSharesRefs>>

\* Lines 65-72: tabGroups.close resolves, or throws and sortTabs returns 0.
SortClose(closes) ==
    /\ last = NoCall
    /\ ld.pc = "sortClose"
    /\ IF closes
       THEN /\ panes' = <<>>
            /\ SortEnter(ld)
       ELSE /\ last' = LoadCall([ld EXCEPT !.closeFailed = TRUE], "ok")
            /\ ld' = IdleLd
            /\ UNCHANGED panes
    /\ UNCHANGED <<store, now, hostSharesRefs>>

\* Lines 77-98: the open of a document or of a comparison resolves and is
\* counted, or throws; after a throw the loop goes on without the delay.
SortOpen(opens) ==
    /\ last = NoCall
    /\ ld.pc = "sortOpen"
    /\ IF opens
       THEN /\ panes' = OpenTab(panes, TabOfInfo(ld.tabs[ld.i]), ~ld.tabs[ld.i].isPinned)
            /\ ld' = [ld EXCEPT !.pc = "sortDelay",
                                !.opened = @ + 1,
                                !.log = Append(@, LogEntry(InfoId(ld.tabs[ld.i]), "none", "ok"))]
            /\ UNCHANGED last
       ELSE /\ panes' = panes
            /\ SortEnter([ld EXCEPT !.i = @ + 1,
                                    !.log = Append(@, LogEntry(InfoId(ld.tabs[ld.i]), "none", "failed"))])
    /\ UNCHANGED <<store, now, hostSharesRefs>>

\* Line 102: the 50 ms delay is over.
SortDelay ==
    /\ last = NoCall
    /\ ld.pc = "sortDelay"
    /\ SortEnter([ld EXCEPT !.i = @ + 1])
    /\ UNCHANGED <<store, panes, now, hostSharesRefs>>

\* Lines 109-119: the tab that was active is shown again, with the focus; a
\* throw is swallowed.
SortFocus(opens) ==
    /\ last = NoCall
    /\ ld.pc = "sortFocus"
    /\ panes' = IF opens
                THEN OpenTab(panes, TabOfInfo(ExtractTabInfos(ld.panes0)[ld.active]), TRUE)
                ELSE panes
    /\ SortReturn([ld EXCEPT !.focus = IF opens THEN "ok" ELSE "failed"])
    /\ UNCHANGED <<store, now, hostSharesRefs>>

\* The values of cleanx.customFileTypeOrder in SpecReopen.
ReopenOrders == {<<>>, <<"ts">>}

NextReopen ==
    \/ \E t \in TabChoices : UserOpensTab(t)
    \/ \E k \in 1..MaxPanes : UserClosesTab(k)
    \/ ld.pc = "idle" /\ SaveCurrentTabsAsWorkspace(UserName(1), FALSE)
    \/ LoadWorkspace(UserName(1), FALSE)
    \/ \E closes \in BOOLEAN : LoadClose(closes)
    \/ \E found \in BOOLEAN : LoadStat(found)
    \/ \E opens \in BOOLEAN : LoadOpen(opens)
    \/ LoadDelay
    \/ \E customFileTypeOrder \in ReopenOrders : SortTabs(customFileTypeOrder)
    \/ \E closes \in BOOLEAN : SortClose(closes)
    \/ \E opens \in BOOLEAN : SortOpen(opens)
    \/ SortDelay
    \/ \E opens \in BOOLEAN : SortFocus(opens)
    \/ Acknowledge

SpecReopen == Init /\ [][NextReopen]_vars

(* SpecReopenFair: loads and sorts of fewer kinds of tab, where a host call   *)
(* or a delay a call in flight is waiting for comes back at some time.        *)

\* A file, a document that is not a file, and a tab with no document.
FairTabChoices ==
    { TextTab(FileA),
      TextTab(UntitledU),
      Tab("other", NoUri, NoUri, NoUri, "Terminal") }

ReopenSteps ==
    \/ \E closes \in BOOLEAN : LoadClose(closes)
    \/ \E found \in BOOLEAN : LoadStat(found)
    \/ \E opens \in BOOLEAN : LoadOpen(opens)
    \/ LoadDelay
    \/ \E closes \in BOOLEAN : SortClose(closes)
    \/ \E opens \in BOOLEAN : SortOpen(opens)
    \/ SortDelay
    \/ \E opens \in BOOLEAN : SortFocus(opens)

NextReopenFair ==
    \/ \E t \in FairTabChoices : UserOpensTab(t)
    \/ \E k \in 1..MaxPanes : UserClosesTab(k)
    \/ ld.pc = "idle" /\ SaveCurrentTabsAsWorkspace(UserName(1), FALSE)
    \/ LoadWorkspace(UserName(1), FALSE)
    \/ \E customFileTypeOrder \in ReopenOrders : SortTabs(customFileTypeOrder)
    \/ ReopenSteps
    \/ Acknowledge

SpecReopenFair == Init /\ [][NextReopenFair]_vars /\ WF_vars(ReopenSteps)

(* SpecAbort: the same calls on two names and two files.                     *)

AbortTabChoices == {TextTab(FileA), TextTab(FileB)}

NextAbort ==
    \/ \E t \in AbortTabChoices : UserOpensTab(t)
    \/ \E k \in 1..MaxPanes : UserClosesTab(k)
    \/ \E name \in InputNames : ld.pc = "idle" /\ SaveCurrentTabsAsWorkspace(name, FALSE)
    \/ \E name \in CallNames : LoadWorkspace(name, FALSE)
    \/ \E closes \in BOOLEAN : LoadClose(closes)
    \/ \E found \in BOOLEAN : LoadStat(found)
    \/ \E opens \in BOOLEAN : LoadOpen(opens)
    \/ LoadDelay
    \/ \E customFileTypeOrder \in ReopenOrders : SortTabs(customFileTypeOrder)
    \/ \E closes \in BOOLEAN : SortClose(closes)
    \/ \E opens \in BOOLEAN : SortOpen(opens)
    \/ SortDelay
    \/ \E opens \in BOOLEAN : SortFocus(opens)
    \/ Acknowledge

SpecAbort == Init /\ [][NextAbort]_vars

(* SpecMidway: two files; named saves also run at the suspension points of a  *)
(* load or of a sort in flight.                                               *)

NextMidway ==
    \/ \E t \in AbortTabChoices : UserOpensTab(t)
    \/ \E k \in 1..MaxPanes : UserClosesTab(k)
    \/ \E name \in InputNames : SaveCurrentTabsAsWorkspace(name, FALSE)
    \/ LoadWorkspace(UserName(1), FALSE)
    \/ SortTabs(<<>>)
    \/ ReopenSteps
    \/ Acknowledge

SpecMidway == Init /\ [][NextMidway]_vars

-----------------------------------------------------------------------------
(* SpecExtract: tabs pinned or not, in two groups, and the extractor applied  *)
(* to the tabs the host reports.                                             *)

\* The editor groups a tab may sit in.
ViewColumns == {1, 2}

\* A tab of TabChoices, pinned or not, in either group.
ExtractTabChoices ==
    {[t EXCEPT !.isPinned = isPinned, !.viewColumn = viewColumn] :
        t \in TabChoices, isPinned \in BOOLEAN, viewColumn \in ViewColumns}

\* extractTabInfos(tabs) on the tabs of all groups, as a save and a sort call it.
ExtractCall ==
    /\ last = NoCall
    /\ last' = [Call("extract", NoName, NoName, FALSE, "ok") EXCEPT
                    !.list = ExtractTabInfos(panes)]
    /\ UNCHANGED <<store, panes, now, hostSharesRefs, ld>>

NextExtract ==
    \/ \E t \in ExtractTabChoices : UserOpensTab(t)
    \/ \E k \in 1..MaxPanes : UserClosesTab(k)
    \/ ExtractCall
    \/ Acknowledge

SpecExtract == Init /\ [][NextExtract]_vars

-----------------------------------------------------------------------------
(* Properties.  `last` holds the call that has just returned, with the store  *)
(* and the open tabs as they were when it was made; store and panes are what *)
(* that call left behind.                                                     *)

\* The document a tab shows: its own for an editor, the modified side for a
\* comparison, none for a terminal or a webview.
DocumentOf(t) ==
    IF t.kind \in {"text", "custom"} THEN t.uri
    ELSE IF t.kind = "diff" THEN t.modified
    ELSE NoUri

\* The identifiers of the documents shown in the open tabs, in tab order.
RECURSIVE DocumentIds(_)
DocumentIds(tabs) ==
    IF tabs = <<>> THEN <<>>
    ELSE (IF DocumentOf(Head(tabs)) = NoUri THEN <<>> ELSE <<UriToString(DocumentOf(Head(tabs)))>>)
         \o DocumentIds(Tail(tabs))

\* The stored workspaces with a given name.
Named(state, name) == {i \in 1..Len(state.workspaces) : state.workspaces[i].name = name}

\* The identifiers the tabs open now show.
ShownIds == {UriToString(DocumentOf(panes[i])) : i \in 1..Len(panes)}

\* A stored identifier the host refused: the probe or the open failed.
Refused(log, id) == \E e \in Range(log) : e.uri = id /\ (e.probe = "failed" \/ e.open = "failed")

-----------------------------------------------------------------------------
\* C1: loadWorkspace(name, autoSaveCurrent) with a name that no stored
\* workspace has fails with the not-found error, leaves the whole store as it
\* was and closes no tab, whatever autoSaveCurrent is and however many tabs are
\* open.
C1_LoadUnknownName ==
    (last.op = "load" /\ ~HasName(last.store0.workspaces, last.name))
        => /\ last.status = "NotFound"
           /\ store = last.store0
           /\ panes = last.panes0

C1_Witness ==
    /\ last.op = "load"
    /\ last.status = "NotFound"
    /\ last.auto
    /\ Len(last.panes0) > 0
    /\ Len(last.store0.workspaces) > 0
    /\ ~HasPreviousWorkspace(last.store0)

\* C2: a save under a name (not an auto-save) followed at once by a load of
\* that name that completes leaves open exactly the saved identifiers that
\* have the file scheme and that the host did not refuse: every identifier
\* shown was saved and is a file, and every saved identifier not shown is
\* either not a file or was refused by the probe or the open.
C2_SaveThenLoad ==
    (last.op = "load" /\ last.afterSave /\ last.status = "ok")
        => LET saved == Range(DocumentIds(last.panes0))
           IN /\ \A i \in 1..Len(panes) : panes[i].kind = "text"
              /\ ShownIds \subseteq saved
              /\ \A id \in ShownIds : UriParse(id).scheme = "file"
              /\ \A id \in saved \ ShownIds :
                    UriParse(id).scheme # "file" \/ Refused(last.log, id)

C2_Witness ==
    /\ last.op = "load"
    /\ last.afterSave
    /\ last.status = "ok"
    /\ \E t \in Range(last.panes0) : t.kind = "diff"
    /\ UriToString(FileB) \in ShownIds
    /\ UriToString(UntitledU) \in Range(DocumentIds(last.panes0))

\* C3: a load of a stored workspace whose batch close succeeds never fails;
\* it returns opened = the number of stored identifiers that have the file
\* scheme, pass the probe and open, and skipped = the number of all the others.
C3_LoadCounts ==
    (last.op = "load" /\ HasName(last.store0.workspaces, last.name) /\ last.status # "CloseFailed")
        => LET stored == last.store0.workspaces[FindIndex(last.store0.workspaces, last.name)].tabs
               good == {i \in 1..Len(stored) :
                           /\ UriParse(stored[i]).scheme = "file"
                           /\ last.log[i].probe = "ok"
                           /\ last.log[i].open = "ok"}
           IN /\ last.status = "ok"
              /\ Len(last.log) = Len(stored)
              /\ \A i \in 1..Len(stored) : last.log[i].uri = stored[i]
              /\ last.opened = Cardinality(good)
              /\ last.skipped = Len(stored) - Cardinality(good)

C3_Witness ==
    /\ last.op = "load"
    /\ last.status = "ok"
    /\ last.opened = 1
    /\ last.skipped = 1
    /\ \E e \in Range(last.log) : e.probe = "failed"

\* C4: after saveCurrentTabsAsWorkspace(name, false), also when a workspace
\* of that name was stored before with other tabs, the store holds exactly one
\* workspace of that name, its tabs are the identifiers of the tabs open at the
\* save (nothing of the old list is kept), and currentWorkspace is the name.
C4_SaveReplaces ==
    (last.op = "save" /\ ~last.auto)
        => /\ Cardinality(Named(store, last.name)) = 1
           /\ \A i \in Named(store, last.name) :
                 store.workspaces[i].tabs = DocumentIds(last.panes0)
           /\ store.currentWorkspace = last.name

C4_Witness ==
    /\ last.op = "save"
    /\ ~last.auto
    /\ \E i \in Named(last.store0, last.name) :
          LET old == Range(last.store0.workspaces[i].tabs)
              new == Range(DocumentIds(last.panes0))
          IN old \ new # {} /\ new \ old # {}

\* The previousWorkspace slot holds nothing.
SlotEmpty(state) == state.previousWorkspace = NoWorkspace

C7_RestoreEmptySlot ==
    (last.op = "restore" /\ SlotEmpty(last.store0))
        => /\ last.status = "NoPreviousWorkspace"
           /\ panes = last.panes0
           /\ store = last.store0

C7_Witness ==
    /\ last.op = "restore"
    /\ last.status = "NoPreviousWorkspace"
    /\ Len(last.panes0) > 0
    /\ Len(last.store0.workspaces) > 0
    /\ last.store0.currentWorkspace # NoName

C9_DeleteRemoves ==
    (last.op = "delete" /\ last.status = "ok")
        => /\ Named(store, last.name) = {}
           /\ store.currentWorkspace =
                 IF last.store0.currentWorkspace = last.name
                 THEN NoName
                 ELSE last.store0.currentWorkspace
           /\ store.workspaces = SelectSeq(last.store0.workspaces, LAMBDA w : w.name # last.name)
           /\ store.previousWorkspace = last.store0.previousWorkspace

C9_Witness ==
    /\ last.op = "delete"
    /\ last.status = "ok"
    /\ Len(store.workspaces) > 0
    /\ ~SlotEmpty(store)
    /\ last.store0.currentWorkspace = last.name

\* C10: deleteWorkspace(name) with a name that no stored workspace has fails
\* with the not-found error and leaves the store as it was, in every state the
\* store operations reach.
C10_DeleteUnknownName ==
    (last.op = "delete" /\ Named(last.store0, last.name) = {})
        => /\ last.status = "NotFound"
           /\ store = last.store0

\* C11: renameWorkspace(a, b) with a stored and a workspace named b stored
\* too (b may be a itself) fails with the already-exists error and leaves the
\* whole store, both workspaces and currentWorkspace included, as it was.
C11_RenameConflict ==
    (last.op = "rename" /\ Named(last.store0, last.name) # {} /\ Named(last.store0, last.arg) # {})
        => /\ last.status = "Conflict"
           /\ store = last.store0

C11_Witness ==
    /\ last.op = "rename"
    /\ last.status = "Conflict"
    /\ last.name # last.arg
    /\ last.store0.currentWorkspace = last.name
    /\ Len(last.store0.workspaces) = 2

\* C12: a renameWorkspace(old, new) that succeeded changed one workspace
\* named old, and of it only the name (now new) and lastModified (now the time
\* of the call); its tabs and createdAt, every other workspace and the slot
\* are as before; currentWorkspace is new if it was old and unchanged otherwise.
C12_RenameFrame ==
    (last.op = "rename" /\ last.status = "ok")
        => /\ Len(store.workspaces) = Len(last.store0.workspaces)
           /\ \E k \in Named(last.store0, last.name) :
                 /\ store.workspaces[k].name = last.arg
                 /\ store.workspaces[k].lastModified = now
                 /\ store.workspaces[k].tabs = last.store0.workspaces[k].tabs
                 /\ store.workspaces[k].createdAt = last.store0.workspaces[k].createdAt
                 /\ \A i \in 1..Len(store.workspaces) :
                       i # k => store.workspaces[i] = last.store0.workspaces[i]
           /\ store.currentWorkspace =
                 IF last.store0.currentWorkspace = last.name
                 THEN last.arg
                 ELSE last.store0.currentWorkspace
           /\ store.previousWorkspace = last.store0.previousWorkspace

C12_Witness ==
    /\ last.op = "rename"
    /\ last.status = "ok"
    /\ Len(store.workspaces) = 2
    /\ last.store0.currentWorkspace = last.name
    /\ \E k \in Named(last.store0, last.name) :
          /\ last.store0.workspaces[k].lastModified < now
          /\ last.store0.workspaces[k].tabs # <<>>

\* C13: after every load that completed, currentWorkspace is the loaded
\* name, however many identifiers were skipped, all of them included.
C13_LoadMakesCurrent ==
    (last.op = "load" /\ last.status = "ok")
        => store.currentWorkspace = last.name

C13_Witness ==
    /\ last.op = "load"
    /\ last.status = "ok"
    /\ last.opened = 0
    /\ last.skipped > 0
    /\ last.store0.currentWorkspace # last.name

\* C14: after every load that completed, the stored lastModified of the
\* loaded workspace is the time of the load.
C14_LoadRefreshesLastModified ==
    (last.op = "load" /\ last.status = "ok")
        => \E i \in Named(store, last.name) : store.workspaces[i].lastModified = now

\* C15: saveCurrentTabsAsWorkspace(name, true) replaces the previousWorkspace
\* slot by the tabs open at the call and nothing else: the stored workspaces
\* and currentWorkspace are as before, also when a workspace is named name.
C15_AutoSaveFrame ==
    (last.op = "save" /\ last.auto)
        => /\ store.workspaces = last.store0.workspaces
           /\ store.currentWorkspace = last.store0.currentWorkspace
           /\ store.previousWorkspace.name = last.name
           /\ store.previousWorkspace.tabs = DocumentIds(last.panes0)

C15_Witness ==
    /\ last.op = "save"
    /\ last.auto
    /\ Named(last.store0, last.name) # {}
    /\ last.store0.currentWorkspace \notin {last.name, NoName}
    /\ ~SlotEmpty(last.store0)
    /\ store.previousWorkspace # last.store0.previousWorkspace

\* C16: saveCurrentTabsAsWorkspace(name, false) makes name current, leaves
\* every workspace with another name as it was and in the same order (the one
\* that was current before included), and leaves the slot as it was.
C16_SaveFrame ==
    (last.op = "save" /\ ~last.auto)
        => /\ store.currentWorkspace = last.name
           /\ SelectSeq(store.workspaces, LAMBDA w : w.name # last.name)
                 = SelectSeq(last.store0.workspaces, LAMBDA w : w.name # last.name)
           /\ store.previousWorkspace = last.store0.previousWorkspace

C16_Witness ==
    /\ last.op = "save"
    /\ ~last.auto
    /\ last.store0.currentWorkspace \notin {last.name, NoName}
    /\ Named(store, last.store0.currentWorkspace) # {}
    /\ ~SlotEmpty(store)

\* C17: whenever no call is in flight, no two stored workspaces have the
\* same name.
C17_UniqueNames ==
    ld.pc = "idle"
        => \A i, j \in 1..Len(store.workspaces) :
              store.workspaces[i].name = store.workspaces[j].name => i = j

\* C18: every stored workspace name has between 2 and 50 characters, all of
\* them letters, digits, white space, hyphens, underscores or dots.
C18_ValidNames ==
    \A w \in Range(store.workspaces) :
        /\ Len(NameText(w.name)) >= 2
        /\ Len(NameText(w.name)) <= 50
        /\ \A c \in Range(NameText(w.name)) : c \in AllowedChars

\* How often a workspace record occurs in a sequence.
Occurrences(seq, w) == Cardinality({i \in 1..Len(seq) : seq[i] = w})

\* C19: getWorkspaces() returns every stored workspace exactly once, the
\* later lastModified first, and leaves the store, the stored order included,
\* as it was.
C19_GetWorkspaces ==
    last.op = "list"
        => /\ store = last.store0
           /\ Len(last.list) = Len(store.workspaces)
           /\ \A w \in Range(store.workspaces) \cup Range(last.list) :
                 Occurrences(last.list, w) = Occurrences(store.workspaces, w)
           /\ \A i, j \in 1..Len(last.list) :
                 i < j => last.list[i].lastModified >= last.list[j].lastModified

C19_Witness ==
    /\ last.op = "list"
    /\ Len(last.list) = 2
    /\ last.list # store.workspaces
    /\ last.list[1].lastModified > last.list[2].lastModified

\* Whether customFileTypeOrder lists the extension of a descriptor, and where
\* it lists it first.
Listed(order, tabInfo) ==
    \E k \in 1..Len(order) : Chars(order[k]) = getFileExtensionFromTabInfo(tabInfo)

FirstListed(order, tabInfo) ==
    CHOOSE k \in 1..Len(order) :
        /\ Chars(order[k]) = getFileExtensionFromTabInfo(tabInfo)
        /\ \A j \in 1..(k - 1) : Chars(order[j]) # getFileExtensionFromTabInfo(tabInfo)

\* C20: with a non-empty customFileTypeOrder, sortTabInfoArray returns the
\* descriptors it was given, every one whose extension is listed before every
\* one whose extension is not, and the listed ones by the place of their
\* extension in the list, then by lower-cased base name.
C20_CustomOrder ==
    (last.op = "sort" /\ last.order # <<>>) =>
        LET given == ExtractTabInfos(last.panes0)
            out == last.list
        IN  /\ Len(out) = Len(given)
            /\ \A d \in Range(given) : Occurrences(out, d) = Occurrences(given, d)
            /\ \A i, j \in 1..Len(out) :
                  i < j =>
                      /\ Listed(last.order, out[j]) => Listed(last.order, out[i])
                      /\ Listed(last.order, out[j]) =>
                            /\ FirstListed(last.order, out[i]) <= FirstListed(last.order, out[j])
                            /\ FirstListed(last.order, out[i]) = FirstListed(last.order, out[j])
                                  => LocaleCompare(getFileNameFromTabInfo(out[i]),
                                                   getFileNameFromTabInfo(out[j])) <= 0

\* An unlisted type, then [ts, md, ts] with the two ts names in reverse, sorted
\* under [md, ts]: md, the two ts by name, the unlisted one last.
C20_Witness ==
    /\ last.op = "sort"
    /\ last.order = <<"md", "ts">>
    /\ LET given == ExtractTabInfos(last.panes0)
       IN  /\ Len(given) = 4
           /\ ~Listed(last.order, given[1])
           /\ getFileExtensionFromTabInfo(given[2]) = Chars("ts")
           /\ getFileExtensionFromTabInfo(given[3]) = Chars("md")
           /\ getFileExtensionFromTabInfo(given[4]) = Chars("ts")
           /\ LocaleCompare(getFileNameFromTabInfo(given[2]),
                            getFileNameFromTabInfo(given[4])) > 0
           /\ last.list = <<given[3], given[4], given[2], given[1]>>

\* Dictionary order of two strings: a is a proper prefix of b, or at the
\* first place where they differ a has the character that collates first.
LexBefore(a, b) ==
    \E k \in 0..Len(a) :
        /\ k <= Len(b)
        /\ \A i \in 1..k : a[i] = b[i]
        /\ \/ k = Len(a) /\ k < Len(b)
           \/ k < Len(a) /\ k < Len(b) /\ CollationRank(a[k + 1]) < CollationRank(b[k + 1])

LexLeq(a, b) == a = b \/ LexBefore(a, b)

\* C21: two descriptors whose extensions customFileTypeOrder does not list
\* (all of them when it is empty) come out of sortTabInfoArray in dictionary
\* order of their extensions, the empty extension first, and for the same
\* extension in the order of their lower-cased base names.
C21_DefaultOrder ==
    last.op = "sort" =>
        \A i, j \in 1..Len(last.list) :
            (i < j /\ ~Listed(last.order, last.list[i]) /\ ~Listed(last.order, last.list[j])) =>
                /\ LexLeq(getFileExtensionFromTabInfo(last.list[i]),
                          getFileExtensionFromTabInfo(last.list[j]))
                /\ getFileExtensionFromTabInfo(last.list[i]) = getFileExtensionFromTabInfo(last.list[j])
                      => LexLeq(getFileNameFromTabInfo(last.list[i]),
                                getFileNameFromTabInfo(last.list[j]))

\* Two ts files with their names in reverse, an md file and a tab without
\* extension, sorted under the empty order: the whole list is turned round.
C21_Witness ==
    /\ last.op = "sort"
    /\ last.order = <<>>
    /\ LET given == ExtractTabInfos(last.panes0)
       IN  /\ Len(given) = 4
           /\ getFileExtensionFromTabInfo(given[1]) = Chars("ts")
           /\ getFileExtensionFromTabInfo(given[2]) = Chars("ts")
           /\ LexBefore(getFileNameFromTabInfo(given[2]), getFileNameFromTabInfo(given[1]))
           /\ getFileExtensionFromTabInfo(given[3]) = Chars("md")
           /\ getFileExtensionFromTabInfo(given[4]) = <<>>
           /\ last.list = <<given[4], given[3], given[2], given[1]>>

\* The pairs (i, j) of places in tabInfos such that the comparator puts the
\* descriptor at i before the one at j: cmp(tabInfos[i], tabInfos[j]) < 0.
Before(tabInfos, order) ==
    {pair \in (1..Len(tabInfos)) \X (1..Len(tabInfos)) :
        CompareTabInfos(tabInfos[pair[1]], tabInfos[pair[2]], order) < 0}

\* The pairs the comparator puts after: cmp(tabInfos[i], tabInfos[j]) > 0.
After(tabInfos, order) ==
    {pair \in (1..Len(tabInfos)) \X (1..Len(tabInfos)) :
        CompareTabInfos(tabInfos[pair[1]], tabInfos[pair[2]], order) > 0}

\* C22: under every customFileTypeOrder the comparator of sortTabInfoArray is
\* a strict weak ordering of the descriptors it is applied to: no descriptor
\* is before itself, a before b means b after a (so that no more pairs are
\* before than after, and at most one of each two descriptors is before the
\* other), before is transitive, and so is being unordered.
C22_StrictWeakOrdering ==
    last.op = "sort" =>
        \A lt \in {Before(ExtractTabInfos(last.panes0), last.order)},
           gt \in {After(ExtractTabInfos(last.panes0), last.order)} :
            /\ Cardinality(lt) <= Cardinality(gt)
            /\ 2 * Cardinality(lt) <= Len(last.panes0) * (Len(last.panes0) - 1)
            /\ \A a, b, c \in 1..Len(last.panes0) :
                  /\ <<a, a>> \notin lt
                  /\ <<a, b>> \in lt => <<b, a>> \in gt
                  /\ (<<a, b>> \in lt /\ <<b, c>> \in lt) => <<a, c>> \in lt
                  /\ (<<a, b>> \notin lt /\ <<b, a>> \notin lt /\ <<b, c>> \notin lt /\ <<c, b>> \notin lt)
                        => (<<a, c>> \notin lt /\ <<c, a>> \notin lt)

\* An order that names a type twice, applied to two listed descriptors the
\* comparator does not order, a listed one of the other type and an unlisted one.
C22_Witness ==
    /\ last.op = "sort"
    /\ last.order = <<"ts", "md", "ts">>
    /\ \E lt \in {Before(ExtractTabInfos(last.panes0), last.order)} :
          \E a, b, c, d \in 1..Len(last.panes0) :
              /\ a # b
              /\ Listed(last.order, ExtractTabInfos(last.panes0)[a])
              /\ <<a, b>> \notin lt /\ <<b, a>> \notin lt
              /\ Listed(last.order, ExtractTabInfos(last.panes0)[c])
              /\ <<c, a>> \in lt
              /\ ~Listed(last.order, ExtractTabInfos(last.panes0)[d])
              /\ <<b, d>> \in lt

\* C23: sortTabs called with no tab or one tab open returns 0 at once: it
\* never gets to the close or to the loop, and the open tabs stay as they were.
C23_NothingToSort ==
    /\ (ld.caller = "sortTabs") => Len(ld.panes0) > 1
    /\ (last.op = "sortTabs" /\ Len(last.panes0) <= 1) =>
          /\ last.status = "ok"
          /\ last.result.opened = 0
          /\ last.opened = 0
          /\ last.log = <<>>
          /\ ~last.closeFailed
          /\ panes = last.panes0

\* sortTabs has returned from a call made with exactly one tab open.
C23_Witness ==
    /\ last.op = "sortTabs"
    /\ Len(last.panes0) = 1
    /\ panes = last.panes0

\* C24: a load or a sort that got as far as the close ends with an error
\* only when the close threw; and when the close threw, nothing was probed
\* or opened after it, the count of reopened tabs is zero, and a load has
\* left the stored workspaces and currentWorkspace as they were.
C24_CloseFailure ==
    /\ (last.op \in {"load", "sortTabs"} /\ last.status \notin {"ok", "NotFound"})
          => last.closeFailed
    /\ (last.op \in {"load", "sortTabs"} /\ last.closeFailed) =>
          /\ last.log = <<>>
          /\ last.opened = 0
          /\ last.op = "sortTabs" => last.result.opened = 0
          /\ last.op = "load" =>
                /\ store.workspaces = last.store0.workspaces
                /\ store.currentWorkspace = last.store0.currentWorkspace

\* The close of a load threw; the workspace has a tab to reopen and was not
\* the current one.
C24_Witness ==
    /\ last.op = "load"
    /\ last.closeFailed
    /\ last.status = "CloseFailed"
    /\ last.tabs # <<>>
    /\ store.currentWorkspace # last.name

\* C25: a load or a restore that completed and skipped at least one stored
\* identifier hands its caller the number it opened and the number it skipped.
C25_CountsReported ==
    (last.op \in {"load", "restore"} /\ last.status = "ok" /\ last.skipped > 0) =>
        last.result = [opened |-> last.opened, skipped |-> last.skipped]

\* C26 as claimed: a load that completes leaves the store as it read it, with
\* currentWorkspace set; whatever was written in between is gone.
C26_LostUpdate ==
    (last.op = "load" /\ last.status = "ok") =>
        store = [last.store0 EXCEPT !.currentWorkspace = last.name]

\* C26, amended: a load that completes writes back the object it read.  On a
\* host that returns copies that is the store as it was read; on a host that
\* returns the cached object it is the store as the first write after the
\* read left it.  Either way currentWorkspace is set, and every other write
\* made in between is gone.
C26_LostUpdateAmended ==
    (last.op = "load" /\ last.status = "ok") =>
        store = [(IF hostSharesRefs /\ last.commits # <<>>
                  THEN last.commits[1]
                  ELSE last.store0) EXCEPT !.currentWorkspace = last.name]

\* On a host that returns copies, a workspace was deleted while a load of
\* another one was suspended, and is stored again now that the load is over.
C26_Witness ==
    /\ last.op = "load"
    /\ last.status = "ok"
    /\ ~hostSharesRefs
    /\ last.commits # <<>>
    /\ Len(last.commits[1].workspaces) < Len(last.store0.workspaces)
    /\ store.workspaces = last.store0.workspaces

\* The places among the first k open tabs that show a document.
WithDocument(tabs, k) == {j \in 1..k : DocumentOf(tabs[j]) # NoUri}

\* C27: the workspace a save stores has one identifier for each tab open at
\* the save that shows a document, in the order of the tabs: an editor's own
\* uri, a comparison's modified side and not its original side, nothing for a
\* tab without a document; so it has no more identifiers than tabs were open.
C27_SavedIdentifiers ==
    (last.op = "save" /\ ~last.auto) =>
        \A i \in Named(store, last.name) :
            LET tabs == store.workspaces[i].tabs
                open == last.panes0
            IN  /\ Len(tabs) <= Len(open)
                /\ Len(tabs) = Cardinality(WithDocument(open, Len(open)))
                /\ \A k \in WithDocument(open, Len(open)) :
                      LET at == Cardinality(WithDocument(open, k))
                      IN  /\ open[k].kind \in {"text", "custom"}
                                => tabs[at] = UriToString(open[k].uri)
                          /\ open[k].kind = "diff"
                                => /\ tabs[at] = UriToString(open[k].modified)
                                   /\ tabs[at] # UriToString(open[k].original)

\* A save with a tab without a document open before a comparison: the one
\* identifier stored is the comparison's modified side.
C27_Witness ==
    /\ last.op = "save"
    /\ ~last.auto
    /\ Len(last.panes0) = 2
    /\ last.panes0[1].kind = "other"
    /\ last.panes0[2].kind = "diff"
    /\ \E i \in Named(store, last.name) :
          store.workspaces[i].tabs = <<UriToString(last.panes0[2].modified)>>

\* C28: the extractor gives one descriptor for each tab, in the order of the
\* tabs, with the tab's isActive, isPinned, label and viewColumn; a descriptor
\* has uri alone, or originalUri and modifiedUri without uri, or none of the
\* three, and never uri together with originalUri or modifiedUri.
C28_DescriptorShapes ==
    last.op = "extract" =>
        /\ Len(last.list) = Len(last.panes0)
        /\ \A i \in 1..Len(last.list) :
              LET tabInfo == last.list[i]
                  tab == last.panes0[i]
              IN  /\ tabInfo.isActive = tab.isActive
                  /\ tabInfo.isPinned = tab.isPinned
                  /\ tabInfo.label = tab.label
                  /\ tabInfo.viewColumn = tab.viewColumn
                  /\ \/ /\ tabInfo.uri # NoUri
                        /\ tabInfo.originalUri = NoUri
                        /\ tabInfo.modifiedUri = NoUri
                     \/ /\ tabInfo.uri = NoUri
                        /\ tabInfo.originalUri # NoUri
                        /\ tabInfo.modifiedUri # NoUri
                     \/ /\ tabInfo.uri = NoUri
                        /\ tabInfo.originalUri = NoUri
                        /\ tabInfo.modifiedUri = NoUri
                  /\ ~(tabInfo.uri # NoUri
                         /\ (tabInfo.originalUri # NoUri \/ tabInfo.modifiedUri # NoUri))

\* The extractor has been given a pinned comparison in the second group, the
\* active tab there, after an editor in the first group.
C28_Witness ==
    /\ last.op = "extract"
    /\ Len(last.panes0) = 2
    /\ last.panes0[1].kind = "text"
    /\ last.panes0[1].viewColumn = 1
    /\ last.panes0[2].kind = "diff"
    /\ last.panes0[2].isPinned
    /\ last.panes0[2].isActive
    /\ last.panes0[2].viewColumn = 2
    /\ last.list[2].originalUri # NoUri
    /\ last.list[1].uri # NoUri

\* What the loop of a load did with one identifier is as the scheme and the
\* probe allow: an open call only after a probe that succeeded on a file
\* identifier, no probe and no open call for any other scheme, no open call
\* after a probe that failed.
ProbedBeforeOpened(entry) ==
    /\ entry.open # "none" => (UriParse(entry.uri).scheme = "file" /\ entry.probe = "ok")
    /\ UriParse(entry.uri).scheme # "file" => (entry.probe = "none" /\ entry.open = "none")
    /\ entry.probe = "failed" => entry.open = "none"

\* C29: a load calls the host's open only for a stored identifier of scheme
\* file whose probe has succeeded; an identifier of another scheme is counted
\* as skipped with no probe and no open call, and one whose probe fails is
\* counted as skipped with no open call.
C29_OpenOnlyProbedFiles ==
    /\ ld.pc \in {"stat", "open"} => UriParse(ld.tabs[ld.i]).scheme = "file"
    /\ ld.pc \in {"stat", "open", "delay"} =>
          /\ \A k \in 1..Len(ld.log) : ProbedBeforeOpened(ld.log[k])
          /\ ld.skipped >= Cardinality({k \in 1..Len(ld.log) :
                              \/ UriParse(ld.log[k].uri).scheme # "file"
                              \/ ld.log[k].probe = "failed"})
    /\ (last.op = "load" /\ last.status = "ok") =>
          /\ \A k \in 1..Len(last.log) : ProbedBeforeOpened(last.log[k])
          /\ last.skipped >= Cardinality({k \in 1..Len(last.log) :
                                \/ UriParse(last.log[k].uri).scheme # "file"
                                \/ last.log[k].probe = "failed"})

\* A load has skipped an identifier that is not a file without probing it, and
\* has opened a file after its probe succeeded.
C29_Witness ==
    /\ last.op = "load"
    /\ last.status = "ok"
    /\ Len(last.log) = 2
    /\ UriParse(last.log[1].uri).scheme # "file"
    /\ last.log[1].probe = "none"
    /\ last.log[2].probe = "ok"
    /\ last.log[2].open = "ok"
    /\ last.skipped = 1
    /\ last.opened = 1

\* What the log holds for target k of a call: a stored identifier for a load,
\* the identifier of a descriptor for a sort.
TargetId(caller, tabs, k) == IF caller = "sortTabs" THEN InfoId(tabs[k]) ELSE tabs[k]

\* The log of a call has one entry for each of the first n targets, in order.
LoggedInOrder(caller, tabs, log, n) ==
    /\ Len(log) = n
    /\ n <= Len(tabs)
    /\ \A k \in 1..n : log[k].uri = TargetId(caller, tabs, k)

\* C30: the reopen loop of a load and of a sort takes the targets in order and
\* one at a time: while target i is at its probe or its open, exactly the i - 1
\* targets before it have finished; once it has finished, exactly i have; a
\* call that returns after its loop has finished every target once, in
\* order, those after a failed one included.
C30_OneAtATimeInOrder ==
    /\ ld.pc \in {"stat", "open", "sortOpen"} =>
          /\ ld.i \in 1..Len(ld.tabs)
          /\ LoggedInOrder(ld.caller, ld.tabs, ld.log, ld.i - 1)
    /\ ld.pc \in {"delay", "sortDelay"} =>
          LoggedInOrder(ld.caller, ld.tabs, ld.log, ld.i)
    /\ ld.pc = "sortFocus" =>
          LoggedInOrder(ld.caller, ld.tabs, ld.log, Len(ld.tabs))
    /\ (last.op \in {"load", "sortTabs"} /\ last.status = "ok" /\ ~last.closeFailed) =>
          LoggedInOrder(last.op, last.tabs, last.log, Len(last.tabs))

\* A sort has returned after its first target failed to open and its second
\* one opened.
C30_Witness ==
    /\ last.op = "sortTabs"
    /\ last.status = "ok"
    /\ Len(last.tabs) = 2
    /\ Len(last.log) = 2
    /\ last.log[1].open = "failed"
    /\ last.log[2].open = "ok"

\* Target k of a sort is a descriptor with neither a document nor a comparison.
Unresolved(tabInfo) == ~IsTextInfo(tabInfo) /\ ~IsDiffInfo(tabInfo)

\* C31: a load or a sort that ran its loop hands back an opened and a skipped
\* count that add up to the number of targets, and a descriptor with neither a
\* document nor a comparison was not passed to an open call.
C31_EveryTargetCounted ==
    (last.op \in {"load", "sortTabs"} /\ last.status = "ok"
        /\ ~last.closeFailed /\ last.tabs # <<>>) =>
        /\ last.result.opened + last.result.skipped = Len(last.tabs)
        /\ last.op = "sortTabs" =>
              \A k \in 1..Len(last.tabs) :
                  Unresolved(last.tabs[k]) => last.log[k].open = "none"

\* C32: after a sort that ran its loop, a document or a comparison that was
\* the active tab before is the active tab again, unless the open that gives
\* the focus back failed; that failure leaves the returned count what the
\* loop counted.
C32_FocusRestored ==
    (last.op = "sortTabs" /\ last.status = "ok" /\ ~last.closeFailed /\ last.tabs # <<>>) =>
        /\ last.result.opened =
              Cardinality({k \in 1..Len(last.log) : last.log[k].open = "ok"})
        /\ \A f \in 1..Len(last.panes0) :
              (last.panes0[f].isActive /\ last.panes0[f].kind \in {"text", "diff"}
                  /\ last.focus # "failed") =>
                  \E i \in 1..Len(panes) :
                      panes[i].isActive /\ TabKey(panes[i]) = TabKey(last.panes0[f])

\* The resources shown in group viewColumn by the tabs that show one.
ResourcesIn(tabs, viewColumn) ==
    {DocumentOf(tabs[i]) : i \in {j \in 1..Len(tabs) :
        tabs[j].viewColumn = viewColumn /\ DocumentOf(tabs[j]) # NoUri}}

\* C33: after a sort whose close and whose every reopen succeeded, each tab
\* open sits in a group that held its resource before and is a preview editor
\* exactly when the tab captured for that resource was not pinned, each group
\* holds the resources it held before, and the tabs are in sorted order.
C33_SameResourcesSorted ==
    (last.op = "sortTabs" /\ last.status = "ok" /\ ~last.closeFailed /\ last.tabs # <<>>
        /\ \A k \in 1..Len(last.log) : last.log[k].open # "failed") =>
        /\ \A i \in 1..Len(panes) :
              \E k \in 1..Len(last.panes0) :
                  /\ DocumentOf(last.panes0[k]) = DocumentOf(panes[i])
                  /\ last.panes0[k].viewColumn = panes[i].viewColumn
                  /\ panes[i].isPreview = ~last.panes0[k].isPinned
        /\ \A viewColumn \in {last.panes0[k].viewColumn : k \in 1..Len(last.panes0)} :
              ResourcesIn(panes, viewColumn) = ResourcesIn(last.panes0, viewColumn)
        /\ \A i, j \in 1..Len(panes) :
              i < j => \E a, b \in 1..Len(last.tabs) :
                          /\ a < b
                          /\ InfoId(last.tabs[a]) = UriToString(DocumentOf(panes[i]))
                          /\ InfoId(last.tabs[b]) = UriToString(DocumentOf(panes[j]))

\* C34: the workspace a restore that succeeded has stored under the
\* synthesized name has the tabs of the slot and neither the auto-save's name
\* nor, when the slot was filled at an earlier time, its createdAt or its
\* lastModified.
C34_RestoreDropsTimestamps ==
    (last.op = "restore" /\ last.status = "ok") =>
        LET slot == last.store0.previousWorkspace
        IN  \A i \in Named(store, last.name) :
                (store.workspaces[i] \notin Range(last.store0.workspaces)) =>
                    /\ store.workspaces[i].tabs = slot.tabs
                    /\ slot.name.kind = "auto-save" => store.workspaces[i].name # slot.name
                    /\ slot.createdAt < last.name.id =>
                          /\ store.workspaces[i].createdAt # slot.createdAt
                          /\ store.workspaces[i].lastModified # slot.lastModified

\* How far a call in flight has come: the close, then three places for each
\* target (its probe, its open, the delay after it), then the focus.
Progress(l) ==
    CASE l.pc \in {"autosaved"} -> 0
      [] l.pc \in {"close", "sortClose"} -> 1
      [] l.pc = "stat" -> 3 * l.i - 1
      [] l.pc \in {"open", "sortOpen"} -> 3 * l.i
      [] l.pc \in {"delay", "sortDelay"} -> 3 * l.i + 1
      [] OTHER -> 3 * Len(l.tabs) + 2

\* C35: when every host call and every delay comes back, a load or a sort
\* that has started returns; until then each step takes it further through
\* its targets and none takes it back, so it passes over them at most once.
C35_Terminates ==
    /\ (ld.pc # "idle") ~> (ld.pc = "idle")
    /\ [][(ld.pc # "idle" /\ ld'.pc # "idle") =>
            /\ Progress(ld') > Progress(ld)
            /\ Progress(ld') <= 3 * Len(ld.tabs) + 2
            /\ ld'.tabs = ld.tabs]_vars

\* A load has returned after one pass in which the probe of its first
\* identifier failed and its second identifier, not a file, was skipped.
C35_Witness ==
    /\ last.op = "load"
    /\ last.status = "ok"
    /\ Len(last.tabs) = 2
    /\ Len(last.log) = 2
    /\ last.log[1].probe = "failed"
    /\ last.log[2].probe = "none"
    /\ last.skipped = 2

\* C36: currentWorkspace is absent or is the name of a stored workspace.
C36_CurrentNeverDangles ==
    store.currentWorkspace # NoName => HasName(store.workspaces, store.currentWorkspace)

\* C37: whatever commands have run since the store was empty, the slot is
\* empty, 'Restore Previous' is not offered, and the call that just returned
\* was neither an auto-save nor a load with an auto-save.
C37_SlotNeverFilled ==
    /\ store.previousWorkspace = NoWorkspace
    /\ ~RestoreOffered
    /\ ~last.auto
    /\ ~ld.auto

\* A load command has returned that was given tabs to close, where a load with
\* an auto-save would have filled the slot.
C37_Witness ==
    /\ last.op = "load"
    /\ last.status = "ok"
    /\ Len(last.panes0) > 0
    /\ store.currentWorkspace = last.name
    /\ store.previousWorkspace = NoWorkspace

\* What one save, delete or rename makes of the store `before`.
EffectOf(op, name, arg, before, after) ==
    /\ after.previousWorkspace = before.previousWorkspace
    /\ op = "save" =>
          /\ after.workspaces # <<>>
          /\ after.workspaces[Len(after.workspaces)].name = name
          /\ after.workspaces =
                Append(WithoutName(before.workspaces, name), after.workspaces[Len(after.workspaces)])
          /\ after.currentWorkspace = name
    /\ op = "delete" =>
          /\ after.workspaces = WithoutName(before.workspaces, name)
          /\ after.currentWorkspace =
                IF before.currentWorkspace = name THEN NoName ELSE before.currentWorkspace
    /\ op = "rename" =>
          /\ Len(after.workspaces) = Len(before.workspaces)
          /\ \A i \in 1..Len(before.workspaces) :
                /\ after.workspaces[i].tabs = before.workspaces[i].tabs
                /\ after.workspaces[i].name =
                      IF i = FindIndex(before.workspaces, name)
                      THEN arg ELSE before.workspaces[i].name
          /\ after.currentWorkspace =
                IF before.currentWorkspace = name THEN arg ELSE before.currentWorkspace

\* C38: with saves, deletes and renames started while another one is in
\* flight, every write to the store is one whole operation on the store as it
\* is at that write, whether of the call in flight or of one that runs
\* meanwhile, and the tail of a call writes nothing: the store is what the
\* operations make of it one after the other in the order of their writes.
C38_Serialisable ==
    [][/\ (ld.pc = "idle" /\ ld'.pc = "setState") =>
              EffectOf(ld'.caller, ld'.name, ld'.arg, store, store')
       /\ (ld.pc = "setState" /\ ld'.pc = "setState" /\ last = NoCall /\ last' # NoCall) =>
              IF last'.status \in {"NotFound", "Conflict"} /\ last'.op = "rename"
              THEN store' = store
              ELSE EffectOf(last'.op, last'.name, last'.arg, store, store')
       /\ (ld.pc = "setState" /\ ld'.pc = "idle") => store' = store]_vars

\* A save has returned; a save of another name ran while it was in flight, and
\* the store, empty before, holds both workspaces.
C38_Witness ==
    /\ last.op = "save"
    /\ last.others > 0
    /\ last.store0.workspaces = <<>>
    /\ Len(store.workspaces) = 2
    /\ store.workspaces[1].name = last.name
    /\ store.workspaces[2].name # last.name

\* The identifiers a call has opened so far.
OpenedSoFar(log) == {log[k].uri : k \in {j \in 1..Len(log) : log[j].open = "ok"}}

\* Every element of small is one of large, and large has one more.
StrictSubset(small, large) == small \subseteq large /\ small # large

\* C39: a save that ran while a load or a sort was between its close and its
\* last reopen has stored identifiers of tabs that call had reopened by then,
\* and no more of them than it had reopened.
C39_SaveMidway ==
    (last.op = "save" /\ ld.pc \in {"stat", "open", "delay", "sortOpen", "sortDelay"}) =>
        \A i \in Named(store, last.name) :
            /\ Range(store.workspaces[i].tabs) \subseteq OpenedSoFar(ld.log)
            /\ Len(store.workspaces[i].tabs) <=
                  Cardinality({k \in 1..Len(ld.log) : ld.log[k].open = "ok"})

\* A load has returned; the first write after its read was a save that ran
\* midway, and the workspace that save stored holds some but not all of the
\* documents open before the load, and some but not all of those open now.
C39_Witness ==
    /\ last.op = "load"
    /\ last.status = "ok"
    /\ last.commits # <<>>
    /\ \E i \in 1..Len(last.commits[1].workspaces) :
          LET saved == last.commits[1].workspaces[i]
          IN  /\ saved.name # last.name
              /\ saved \notin Range(last.store0.workspaces)
              /\ saved.tabs # <<>>
              /\ StrictSubset(Range(saved.tabs), Range(DocumentIds(last.panes0)))
              /\ StrictSubset(Range(saved.tabs), Range(DocumentIds(panes)))

\* C40: sortTabInfoArray returns a permutation of the captured descriptors:
\* the result is as long as the input and holds every descriptor as often as
\* the input does (label-only descriptors and descriptors with equal keys
\* included), and the captured array is in the order it was captured in.
C40_Permutation ==
    last.op = "sort" =>
        LET given == ExtractTabInfos(last.panes0)
        IN  /\ Len(last.list) = Len(given)
            /\ \A k \in 1..Len(given) :
                    Occurrences(last.list, given[k]) = Occurrences(given, given[k])
            /\ last.tabs = given

\* A sort that moved something, of an array with a label-only descriptor and
\* two descriptors whose keys are equal.
C40_Witness ==
    /\ last.op = "sort"
    /\ last.list # last.tabs
    /\ \E k \in 1..Len(last.tabs) : Unresolved(last.tabs[k])
    /\ \E i, j \in 1..Len(last.tabs) :
            /\ i # j
            /\ CompareTabInfos(last.tabs[i], last.tabs[j], last.order) = 0

====
